---- MODULE Spec2Model ----
(***************************************************************************)
(* Constraint retrieval and ranking engine of FEAST (src/recipe_db.py).    *)
(*                                                                         *)
(* Strings are sequences of words; a word is a TLA+ string.  Substring     *)
(* tests (Python `in`, a MongoDB $regex with a literal pattern) are        *)
(* contiguous-subsequence tests on words, and str.lower() / the regex      *)
(* option "i" fold case word by word through LowerOf.                      *)
(*                                                                         *)
(* Python dicts (the MongoDB query, the weight table) are functions whose  *)
(* DOMAIN is the set of keys present.  The preference map also records     *)
(* the insertion order of its keys, which list(preferences.keys()) and     *)
(* preferences.items() expose.                                             *)
(*                                                                         *)
(* `not collection` is read as `collection is None`.                       *)
(***************************************************************************)
EXTENDS Integers, Sequences, FiniteSets, TLC

VARIABLES
    collection,           \* module global: "None" or "Collection"
    catalog,              \* documents of recipeDB.recipes, in natural order
    pc,                   \* position inside the call in progress
    fn,                   \* function the caller invoked
    preferences,          \* the caller's preference map
    max_relaxations,      \* argument of search_with_fallback
    relaxed,              \* local of search_with_fallback
    relaxed_preferences,  \* local of search_with_fallback
    ret,                  \* value returned to the caller
    path,                 \* return statement that produced ret
    raised,               \* what raised inside the outermost try block
    pantry_call,          \* the last call of the pantry matcher, with its result
    pantry_prev,          \* the call of the pantry matcher before that one
    user_preferences,     \* RecipeRecommender: user -> recipe id -> rating
    recipe_features,      \* RecipeRecommender: recipe id -> features, ordered
    recipe_similarity,    \* RecipeRecommender: the similarity matrix
    rec_pc,               \* position inside update_recipe_features
    rec_ret,              \* the last read of the recommender and its result
    transform,            \* the last scaling or substitution call, with its result
    built,                \* the last query-builder call, with the query built
    limiter               \* the RateLimiter of src/api.py and its last answer

searchVars == <<pc, fn, preferences, max_relaxations, relaxed,
                relaxed_preferences, ret, path, raised>>

pantryVars == <<pantry_call, pantry_prev>>

recVars == <<user_preferences, recipe_features, recipe_similarity, rec_pc,
             rec_ret>>

\* what the search functions leave alone
nonSearchVars == <<pantryVars, recVars, transform, built, limiter>>

\* what the pantry matcher leaves alone
nonPantryVars ==
    <<collection, catalog, searchVars, recVars, transform, built, limiter>>

\* what the recommender leaves alone
nonRecVars ==
    <<collection, catalog, searchVars, pantryVars, transform, built, limiter>>

\* what scaling and substitution leave alone
nonTransformVars ==
    <<collection, catalog, searchVars, pantryVars, recVars, built, limiter>>

\* what the query builders leave alone
nonBuiltVars ==
    <<collection, catalog, searchVars, pantryVars, recVars, transform, limiter>>

\* what the rate limiter leaves alone
nonLimiterVars ==
    <<collection, catalog, searchVars, pantryVars, recVars, transform, built>>

vars ==
    <<collection, catalog, searchVars, pantryVars, recVars, transform, built,
      limiter>>

-----------------------------------------------------------------------------
(* Bounds *)

MaxCatalog == 2
LargeCatalogLen == 11
MaxPantry == 2
MaxPantryCatalog == 2
MaxRated == 2

\* requests a client may make per minute; stands for the 60 of
\* RateLimiter.__init__
RequestsPerMinute == 2

\* clock ticks in timedelta(minutes=1)
MinuteTicks == 2

\* the last reading of the clock
MaxClock == 5

-----------------------------------------------------------------------------
(* Strings *)

LowerOf ==
    [w \in {"Indian", "Italian", "Vegan", "Dessert", "Quick", "Onion"} |->
        CASE w = "Indian"  -> "indian"
          [] w = "Italian" -> "italian"
          [] w = "Vegan"   -> "vegan"
          [] w = "Dessert" -> "dessert"
          [] w = "Quick"   -> "quick"
          [] w = "Onion"   -> "onion"]

LowerWord(w) == IF w \in DOMAIN LowerOf THEN LowerOf[w] ELSE w

Lower(s) == [i \in DOMAIN s |-> LowerWord(s[i])]

\* needle in hay
Contains(needle, hay) ==
    \E off \in 0..(Len(hay) - Len(needle)) :
        \A j \in 1..Len(needle) : hay[off + j] = needle[j]

\* re.search(pattern, text, re.I) for a literal pattern
RegexSearchI(pattern, text) == Contains(Lower(pattern), Lower(text))

NumberOf ==
    [w \in {"20", "45"} |-> IF w = "20" THEN 20 ELSE 45]

\* re.search(r"(\d+)", s): index of the first numeric word, 0 when none
FirstNumberIdx(s) ==
    IF \E i \in DOMAIN s : s[i] \in DOMAIN NumberOf
    THEN CHOOSE i \in DOMAIN s :
            /\ s[i] \in DOMAIN NumberOf
            /\ \A j \in 1..(i - 1) : s[j] \notin DOMAIN NumberOf
    ELSE 0

-----------------------------------------------------------------------------
(* Dicts *)

EmptyDict == [k \in {} |-> 0]

DictSet(d, k, v) == [x \in (DOMAIN d) \cup {k} |-> IF x = k THEN v ELSE d[x]]

DictDel(d, k) == [x \in (DOMAIN d) \ {k} |-> d[x]]

Min(a, b) == IF a < b THEN a ELSE b

Head_n(s, n) == SubSeq(s, 1, Min(n, Len(s)))

\* a preference map: keys in insertion order, and their values
PrefHas(p, k) == \E i \in DOMAIN p.keys : p.keys[i] = k

\* preferences.get(k) is truthy
PrefGet(p, k) == PrefHas(p, k) /\ p.val[k] # <<>>

PrefDel(p, k) ==
    [keys |-> SelectSeq(p.keys, LAMBDA x : x # k), val |-> p.val]

-----------------------------------------------------------------------------
(* Program constants *)

SAMPLE_RECIPES == <<>>

relaxation_order ==
    <<"time", "taste", "exclude_ingredient", "ingredient", "course",
      "cuisine", "diet">>

PageLimit == 10

SampleSlice == 5

DefaultMaxRelaxations == 3

QuickMinutes == 30

default_weights ==
    [k \in {"diet", "exclude_ingredient", "cuisine", "course", "time",
            "ingredient", "taste"} |->
        CASE k = "diet"               -> 10
          [] k = "exclude_ingredient" -> 8
          [] k = "cuisine"            -> 5
          [] k = "course"             -> 4
          [] k = "time"               -> 3
          [] k = "ingredient"         -> 2
          [] k = "taste"              -> 1]

-----------------------------------------------------------------------------
(* Recipe documents as import_recipes.py stores them: diet is the list of  *)
(* tags classify_diet returns, ingredients a list of strings.  The state   *)
(* holds recipes by their _id; RecipeOf gives the document.                *)

Doc(id, name, desc, cuisine, diet, ingredients, mins) ==
    [_id |-> id, RecipeName |-> name, Description |-> desc,
     Cuisine |-> cuisine, diet |-> [type |-> "list", v |-> diet],
     ingredients |-> ingredients, TotalTimeInMins |-> mins]

Template(t, id) ==
    CASE t = 1 ->
            Doc(id, <<"Paneer", "Tikka">>, <<"spicy", "snack">>, <<"Indian">>,
                << <<"vegetarian">> >>,
                << <<"paneer">>, <<"red", "Onion">> >>, 20)
      [] t = 2 ->
            Doc(id, <<"Chicken", "Curry">>, <<>>, <<"Indian">>,
                << <<"non", "vegetarian">>, <<"dairy", "free">> >>,
                << <<"chicken">>, <<"onion">> >>, 45)
      [] t = 3 ->
            Doc(id, <<"Pasta", "Primavera">>, <<"dinner">>, <<"Italian">>,
                << <<"vegetarian">>, <<"vegan">> >>,
                << <<"pasta">>, <<"tomato">> >>, 40)
      [] t = 4 ->
            Doc(id, <<"Rice", "Kheer">>, <<"Dessert">>, <<"Indian">>,
                << <<"vegetarian">> >>,
                << <<"rice">>, <<"milk">> >>, 60)
      [] t = 5 ->
            Doc(id, <<"Quick", "Tomato", "Soup">>, <<>>, <<"Italian">>,
                << <<"vegetarian">>, <<"vegan">> >>,
                << <<"tomato">> >>, 15)

Templates == 1..5

\* documents the pantry matcher is tried on
PantryIds == 201..204

PantryTemplate(id) ==
    CASE id = 201 ->
            Doc(id, <<"Chicken", "Rice">>, <<>>, <<"Indian">>,
                << <<"non", "vegetarian">> >>,
                << <<"chicken">>, <<"rice">>, <<"bell", "pepper">>,
                   <<"onion">> >>, 45)
      [] id = 202 ->
            Doc(id, <<"Onion", "Rice">>, <<>>, <<"Indian">>,
                << <<"vegetarian">>, <<"vegan">> >>,
                << <<"rice">>, <<"onion">> >>, 20)
      [] id = 203 ->
            Doc(id, <<"Plain", "Water">>, <<>>, <<"Indian">>,
                << <<"vegetarian">> >>, << >>, 15)
      [] id = 204 ->
            Doc(id, <<"Rice", "Kheer">>, <<"Dessert">>, <<"Indian">>,
                << <<"vegetarian">> >>,
                << <<"Onion">>, <<"rice">>, <<"pepper">> >>, 60)

\* the document with the given _id
RecipeOf(id) ==
    IF id \in PantryIds
    THEN PantryTemplate(id)
    ELSE Template(((id - 1) % 5) + 1, id)

\* catalogs of distinct documents, up to MaxCatalog long
SmallCatalogs ==
    UNION {{c \in [1..n -> Templates] :
                \A i, j \in 1..n : i # j => c[i] # c[j]} : n \in 0..MaxCatalog}

\* a catalog longer than one page
LargeCatalog == [i \in 1..LargeCatalogLen |-> 100 + i]

Catalogs == SmallCatalogs \cup {LargeCatalog}

-----------------------------------------------------------------------------
(* Preference maps *)

ActionsOrder ==
    <<"diet", "cuisine", "ingredient", "course", "time", "taste",
      "exclude_ingredient">>

KeyOrders == {ActionsOrder, relaxation_order}

PrefValues(k) ==
    CASE k = "diet"               -> {<<"vegetarian">>, <<"Vegan">>}
      [] k = "cuisine"            -> {<<"Indian">>, <<"italian">>}
      [] k = "ingredient"         -> {<<"paneer">>}
      [] k = "exclude_ingredient" -> {<<"onion">>}
      [] k = "course"             -> {<<"dessert">>}
      [] k = "time"               -> {<<"quick">>}
      [] k = "taste"              -> {<<"spicy">>}

\* the requests tried: a vegetarian Indian one and a vegan Italian one
DietAndCuisine ==
    {<<d, c>> \in PrefValues("diet") \X PrefValues("cuisine") :
        Lower(d) = <<"vegetarian">> <=> Lower(c) = <<"indian">>}

AllKeys == {"diet", "cuisine", "ingredient", "exclude_ingredient", "course",
            "time", "taste"}

\* every map over a subset of the known keys, in each insertion order
PrefMaps ==
    {[keys |-> SelectSeq(o, LAMBDA k : k \in S),
      val  |-> [k \in S |-> IF k = "diet" THEN dc[1]
                            ELSE IF k = "cuisine" THEN dc[2]
                            ELSE CHOOSE x \in PrefValues(k) : TRUE]] :
        o \in KeyOrders, S \in SUBSET AllKeys, dc \in DietAndCuisine}

-----------------------------------------------------------------------------
(* build_optimized_query *)

Regex(pattern) == [op |-> "regex", pat |-> pattern]

NotRegex(pattern) == [op |-> "not_regex", pat |-> pattern]

Lt(n) == [op |-> "lt", n |-> n]

\* lines 98-101: diet
QueryDiet(p) ==
    IF PrefGet(p, "diet")
    THEN DictSet(EmptyDict, "diet", Regex(Lower(p.val["diet"])))
    ELSE EmptyDict

\* lines 103-105: cuisine
AddCuisine(q, p) ==
    IF PrefGet(p, "cuisine")
    THEN DictSet(q, "Cuisine", Regex(p.val["cuisine"]))
    ELSE q

\* lines 107-113: course
AddCourse(q, p) ==
    IF PrefGet(p, "course")
    THEN DictSet(q, "$or",
             << DictSet(EmptyDict, "RecipeName", Regex(p.val["course"])),
                DictSet(EmptyDict, "Description", Regex(p.val["course"])) >>)
    ELSE q

\* {"$and": [{"$or": query["$or"]}, {"ingredients": cond}]}
AndOfOrWith(q, cond) ==
    DictSet(EmptyDict, "$and",
            << DictSet(EmptyDict, "$or", q["$or"]),
               DictSet(EmptyDict, "ingredients", cond) >>)

\* lines 115-129: ingredient
AddIngredient(q, p) ==
    IF PrefGet(p, "ingredient")
    THEN IF "$or" \in DOMAIN q
         THEN AndOfOrWith(q, Regex(p.val["ingredient"]))
         ELSE DictSet(q, "ingredients", Regex(p.val["ingredient"]))
    ELSE q

\* del query["$or"]: KeyError when the dict has no "$or" key
DelOr(q) ==
    IF "$or" \in DOMAIN q
    THEN [raises |-> FALSE, query |-> DictDel(q, "$or")]
    ELSE [raises |-> TRUE, query |-> q]

\* query["$and"].append({field: cond})
AppendToAnd(q, field, cond) ==
    DictSet(q, "$and", Append(q["$and"], DictSet(EmptyDict, field, cond)))

\* lines 131-153: exclude_ingredient; the del is applied to the dict that
\* was just rebuilt around "$and"
AddExclude(q, p) ==
    IF PrefGet(p, "exclude_ingredient")
    THEN IF "$and" \in DOMAIN q
         THEN [raises |-> FALSE,
               query |-> AppendToAnd(q, "ingredients",
                             NotRegex(p.val["exclude_ingredient"]))]
         ELSE IF "$or" \in DOMAIN q
              THEN DelOr(AndOfOrWith(q,
                             NotRegex(p.val["exclude_ingredient"])))
              ELSE [raises |-> FALSE,
                    query |-> DictSet(q, "ingredients",
                                  NotRegex(p.val["exclude_ingredient"]))]
    ELSE [raises |-> FALSE, query |-> q]

\* add a TotalTimeInMins condition (lines 160-163, 169-172)
AddTime(q, n) ==
    IF "$and" \in DOMAIN q
    THEN AppendToAnd(q, "TotalTimeInMins", Lt(n))
    ELSE DictSet(q, "TotalTimeInMins", Lt(n))

\* lines 157-172: the branches on time_value
AddTimeFor(r, time_value) ==
    IF \/ Contains(<<"quick">>, time_value)
       \/ Contains(<<"fast">>, time_value)
       \/ Contains(<<"easy">>, time_value)
    THEN [raises |-> FALSE, query |-> AddTime(r.query, QuickMinutes)]
    ELSE IF /\ \/ Contains(<<"under">>, time_value)
               \/ Contains(<<"less", "than">>, time_value)
            /\ FirstNumberIdx(time_value) # 0
         THEN [raises |-> FALSE,
               query |-> AddTime(r.query,
                             NumberOf[time_value[FirstNumberIdx(time_value)]])]
         ELSE r

\* lines 155-172: time, on the outcome r of the lines before
AddTimePref(r, p) ==
    IF r.raises \/ ~PrefGet(p, "time")
    THEN r
    ELSE AddTimeFor(r, Lower(p.val["time"]))

\* the whole function: [raises, query]
build_optimized_query(p) ==
    AddTimePref(
        AddExclude(
            AddIngredient(AddCourse(AddCuisine(QueryDiet(p), p), p), p), p),
        p)

-----------------------------------------------------------------------------
(* The Catalog Store: collection.find(query) on the catalog *)

\* the strings a $regex on the field is tried against
FieldStrings(doc, field) ==
    IF field \notin DOMAIN doc THEN {}
    ELSE IF field = "diet"
         THEN {doc.diet.v[i] : i \in DOMAIN doc.diet.v}
         ELSE IF field = "ingredients"
              THEN {doc.ingredients[i] : i \in DOMAIN doc.ingredients}
              ELSE {doc[field]}

CondHolds(cond, doc, field) ==
    CASE cond.op = "regex" ->
            \E s \in FieldStrings(doc, field) : RegexSearchI(cond.pat, s)
      [] cond.op = "not_regex" ->
            ~\E s \in FieldStrings(doc, field) : RegexSearchI(cond.pat, s)
      [] cond.op = "lt" ->
            field \in DOMAIN doc /\ doc[field] < cond.n

\* a dict of field conditions
MatchFields(d, doc) == \A k \in DOMAIN d : CondHolds(d[k], doc, k)

\* a member of a $and list: field conditions and possibly a $or
MatchClause(d, doc) ==
    \A k \in DOMAIN d :
        IF k = "$or"
        THEN \E i \in DOMAIN d[k] : MatchFields(d[k][i], doc)
        ELSE CondHolds(d[k], doc, k)

Matches(query, doc) ==
    \A k \in DOMAIN query :
        IF k = "$and"
        THEN \A i \in DOMAIN query[k] : MatchClause(query[k][i], doc)
        ELSE IF k = "$or"
             THEN \E i \in DOMAIN query[k] : MatchFields(query[k][i], doc)
             ELSE CondHolds(query[k], doc, k)

\* list(collection.find(query)) on a catalog
Find(docs, query) == SelectSeq(docs, LAMBDA id : Matches(query, RecipeOf(id)))

\* list(collection.find(query).limit(10))
FindPage(docs, query) == Head_n(Find(docs, query), PageLimit)

-----------------------------------------------------------------------------
(* filter_recipes: the in-memory filter over seed-format recipes           *)
(* (keys name, cuisine, course, time, diet, ingredients)                   *)

Get(recipe, field, default) ==
    IF field \in DOMAIN recipe THEN recipe[field] ELSE default

GetDiet(recipe) == IF "diet" \in DOMAIN recipe THEN recipe.diet.v ELSE <<>>

HourWords == {"hour", "hours"}

\* int(recipe_time.split()[0]) raises IndexError or ValueError
TimeParseRaises(recipe_time) ==
    \/ recipe_time = <<>>
    \/ recipe_time[1] \notin DOMAIN NumberOf

QuickAsked(p) == PrefGet(p, "time") /\ Contains(<<"quick">>, Lower(p.val["time"]))

HasHour(recipe_time) ==
    \E i \in DOMAIN recipe_time : LowerWord(recipe_time[i]) \in HourWords

\* processing the recipe raises (lines 270 and 297)
FilterRaisesOn(recipe, p) ==
    \/ /\ PrefGet(p, "diet")
       /\ "diet" \in DOMAIN recipe
       /\ recipe.diet.type = "list"
    \/ /\ QuickAsked(p)
       /\ ~HasHour(Get(recipe, "time", <<>>))
       /\ TimeParseRaises(Get(recipe, "time", <<>>))

\* lines 268-300: the value of match at the end of the loop body
FilterMatch(recipe, p) ==
    /\ ~ ( /\ PrefGet(p, "diet")
           /\ Lower(p.val["diet"]) # Lower(GetDiet(recipe))
           /\ Lower(p.val["diet"]) = <<"vegetarian">>
           /\ GetDiet(recipe) = <<"non", "vegetarian">> )
    /\ PrefGet(p, "cuisine") =>
          Contains(Lower(p.val["cuisine"]), Lower(Get(recipe, "cuisine", <<>>)))
    /\ PrefGet(p, "course") =>
          Contains(Lower(p.val["course"]), Lower(Get(recipe, "course", <<>>)))
    /\ PrefGet(p, "ingredient") =>
          \E i \in DOMAIN Get(recipe, "ingredients", <<>>) :
              Contains(Lower(p.val["ingredient"]), Lower(recipe.ingredients[i]))
    /\ PrefGet(p, "exclude_ingredient") =>
          ~\E i \in DOMAIN Get(recipe, "ingredients", <<>>) :
              Contains(Lower(p.val["exclude_ingredient"]),
                       Lower(recipe.ingredients[i]))
    /\ QuickAsked(p) =>
          /\ ~HasHour(Get(recipe, "time", <<>>))
          /\ NumberOf[Get(recipe, "time", <<>>)[1]] <= QuickMinutes

\* [raises, results]
filter_recipes(recipes, p) ==
    IF \E i \in DOMAIN recipes : FilterRaisesOn(RecipeOf(recipes[i]), p)
    THEN [raises |-> TRUE, results |-> <<>>]
    ELSE [raises |-> FALSE,
          results |-> SelectSeq(recipes, LAMBDA r : FilterMatch(RecipeOf(r), p))]

-----------------------------------------------------------------------------
(* search_with_weighted_scoring: scoring and sorting (lines 469-545)       *)

AnyIngredient(recipe, value) ==
    \E i \in DOMAIN Get(recipe, "ingredients", <<>>) :
        Contains(Lower(value), Lower(recipe.ingredients[i]))

InField(recipe, field, needle) ==
    field \in DOMAIN recipe /\ Contains(needle, Lower(recipe[field]))

\* recipe["diet"].lower() on a list raises AttributeError (line 484)
ScoreRaises(recipe, p) ==
    /\ PrefHas(p, "diet")
    /\ "diet" \in DOMAIN recipe
    /\ recipe.diet.type = "list"

\* the test that adds weights[pref] to the score
PrefMatches(recipe, p, pref) ==
    LET value == Lower(p.val[pref])
    IN  CASE pref = "diet" ->
                "diet" \in DOMAIN recipe /\ Contains(value, Lower(recipe.diet.v))
          [] pref = "exclude_ingredient" -> ~AnyIngredient(recipe, value)
          [] pref = "cuisine" -> InField(recipe, "Cuisine", value)
          [] pref = "course" ->
                \/ InField(recipe, "RecipeName", value)
                \/ InField(recipe, "Description", value)
          [] pref = "time" ->
                \/ InField(recipe, "time", value)
                \/ InField(recipe, "RecipeName", <<"quick">>)
                \/ InField(recipe, "Description", <<"quick">>)
          [] pref = "ingredient" -> AnyIngredient(recipe, value)
          [] pref = "taste" ->
                \/ InField(recipe, "RecipeName", value)
                \/ InField(recipe, "Description", value)
                \/ InField(recipe, "taste", value)

\* matches: the preference keys of the weight table that matched
MatchedPrefs(recipe, p, weights) ==
    {pref \in DOMAIN weights : PrefHas(p, pref) /\ PrefMatches(recipe, p, pref)}

RECURSIVE SumWeights(_, _)
SumWeights(weights, keys) ==
    IF keys = {} THEN 0
    ELSE LET k == CHOOSE x \in keys : TRUE
         IN  weights[k] + SumWeights(weights, keys \ {k})

\* one entry of scored_recipes; match_percentage is kept as the pair
\* <<matched keys, len(preferences)>>
ScoreRecipe(recipe, p, weights) ==
    LET m == MatchedPrefs(RecipeOf(recipe), p, weights)
    IN  [recipe |-> recipe,
         score  |-> SumWeights(weights, m),
         matches |-> m,
         match_percentage |-> <<Cardinality(m), Len(p.keys)>>]

\* variant: x goes in front of the entries that tie with it
InsertByScoreBeforeTies(sorted, x) ==
    LET n == Cardinality({i \in DOMAIN sorted : sorted[i].score > x.score})
    IN  SubSeq(sorted, 1, n) \o <<x>> \o SubSeq(sorted, n + 1, Len(sorted))

\* insert x behind every entry whose score is at least x.score
InsertByScore(sorted, x) ==
    LET n == Cardinality({i \in DOMAIN sorted : sorted[i].score >= x.score})
    IN  SubSeq(sorted, 1, n) \o <<x>> \o SubSeq(sorted, n + 1, Len(sorted))

\* scored_recipes.sort(key=score, reverse=True): stable, descending
RECURSIVE SortByScore(_)
SortByScore(items) ==
    IF items = <<>> THEN <<>>
    ELSE InsertByScore(SortByScore(SubSeq(items, 1, Len(items) - 1)),
                       items[Len(items)])

\* lines 456-465
minimal_query(p) ==
    LET q1 == IF PrefHas(p, "diet")
              THEN DictSet(EmptyDict, "diet", Regex(p.val["diet"]))
              ELSE EmptyDict
    IN  IF PrefHas(p, "exclude_ingredient")
        THEN DictSet(q1, "ingredients", NotRegex(p.val["exclude_ingredient"]))
        ELSE q1

-----------------------------------------------------------------------------
(* Pantry matcher: search_by_available_ingredients and                     *)
(* filter_by_available_ingredients (lines 322-394).  A fraction is the     *)
(* pair <<numerator, denominator>>.                                        *)

\* str.strip(): blanks at both ends removed
RECURSIVE Strip(_)
Strip(s) ==
    IF s = <<>> THEN s
    ELSE IF s[1] = " " THEN Strip(Tail(s))
    ELSE IF s[Len(s)] = " " THEN Strip(SubSeq(s, 1, Len(s) - 1))
    ELSE s

\* [ing.lower().strip() for ing in available_ingredients]
Normalized(available_ingredients) ==
    [i \in DOMAIN available_ingredients |->
        Strip(Lower(available_ingredients[i]))]

\* [ing.lower() for ing in recipe.get('ingredients', [])]
RecipeIngredients(recipe) ==
    [i \in DOMAIN Get(recipe, "ingredients", <<>>) |->
        Lower(recipe.ingredients[i])]

\* variant: only the pantry item given last is tried
CoveredByLast(ing, normalized_ingredients) ==
    /\ normalized_ingredients # <<>>
    /\ \/ Contains(normalized_ingredients[Len(normalized_ingredients)], ing)
       \/ Contains(ing, normalized_ingredients[Len(normalized_ingredients)])

\* any(available_ing in ing or ing in available_ing for available_ing in ...)
Covered(ing, normalized_ingredients) ==
    \E i \in DOMAIN normalized_ingredients :
        \/ Contains(normalized_ingredients[i], ing)
        \/ Contains(ing, normalized_ingredients[i])

MatchingCount(recipe_ingredients, normalized_ingredients) ==
    Cardinality({i \in DOMAIN recipe_ingredients :
                    Covered(recipe_ingredients[i], normalized_ingredients)})

\* matching_count / len(recipe_ingredients) if recipe_ingredients else 0
MatchPercentage(matching_count, recipe_ingredients) ==
    IF recipe_ingredients # <<>>
    THEN <<matching_count, Len(recipe_ingredients)>>
    ELSE <<0, 1>>

\* a >= b on fractions
FracGe(a, b) == a[1] * b[2] >= b[1] * a[2]

\* a > b on fractions
FracGt(a, b) == a[1] * b[2] > b[1] * a[2]

\* the entry appended to ranked_recipes for a recipe
RankedEntry(id, recipe_ingredients, matching_count) ==
    [recipe |-> id,
     match_percentage |-> MatchPercentage(matching_count, recipe_ingredients),
     missing_ingredients |-> Len(recipe_ingredients) - matching_count]

EntryFor(id, normalized_ingredients) ==
    RankedEntry(id, RecipeIngredients(RecipeOf(id)),
                MatchingCount(RecipeIngredients(RecipeOf(id)),
                              normalized_ingredients))

\* insert x behind every entry whose fraction is at least x's
InsertByMatch(sorted, x) ==
    LET n == Cardinality({i \in DOMAIN sorted :
                 FracGe(sorted[i].match_percentage, x.match_percentage)})
    IN  SubSeq(sorted, 1, n) \o <<x>> \o SubSeq(sorted, n + 1, Len(sorted))

\* ranked_recipes.sort(key=match_percentage, reverse=True): stable
RECURSIVE SortByMatch(_)
SortByMatch(items) ==
    IF items = <<>> THEN <<>>
    ELSE InsertByMatch(SortByMatch(SubSeq(items, 1, Len(items) - 1)),
                       items[Len(items)])

\* the entries of every recipe, in the order of the recipes
EntriesOf(recipes, normalized_ingredients) ==
    [i \in DOMAIN recipes |-> EntryFor(recipes[i], normalized_ingredients)]

\* lines 370-394 (and 336-360): keep, sort, strip to the recipes
RankAndStrip(entries, min_match_percentage) ==
    [i \in DOMAIN SelectSeq(entries, LAMBDA e :
                FracGe(e.match_percentage, min_match_percentage)) |->
        SortByMatch(SelectSeq(entries, LAMBDA e :
            FracGe(e.match_percentage, min_match_percentage)))[i].recipe]

filter_by_available_ingredients(recipes, available_ingredients, min_match) ==
    RankAndStrip(EntriesOf(recipes, Normalized(available_ingredients)),
                 min_match)

\* {"ingredients": {"$in": normalized_ingredients}}: an element of the
\* array equals one of the values
InHolds(doc, values) ==
    /\ "ingredients" \in DOMAIN doc
    /\ \E i \in DOMAIN doc.ingredients, j \in DOMAIN values :
          doc.ingredients[i] = values[j]

\* list(collection.find(ingredient_query))
PotentialRecipes(docs, normalized_ingredients) ==
    SelectSeq(docs, LAMBDA id : InHolds(RecipeOf(id), normalized_ingredients))

NoCall ==
    [fn |-> "none", recipes |-> <<>>, available_ingredients |-> <<>>,
     min_match_percentage |-> <<0, 1>>, ret |-> <<>>, raised |-> FALSE]

-----------------------------------------------------------------------------
(* RecipeRecommender (src/recommendation_engine.py).  A feature value is   *)
(* kept in thirds (1.0 is 3), a similarity and a predicted rating as a     *)
(* fraction <<numerator, denominator>>.  A dict whose order is read is a   *)
(* record [keys, val] as the preference map is.                            *)

RECURSIVE Gcd(_, _)
Gcd(a, b) == IF b = 0 THEN a ELSE Gcd(b, a % b)

\* the fraction in lowest terms; denominators are positive
Reduced(f) ==
    IF f[1] = 0 THEN <<0, 1>>
    ELSE <<f[1] \div Gcd(f[1], f[2]), f[2] \div Gcd(f[1], f[2])>>

FracAdd(a, b) == Reduced(<<a[1] * b[2] + b[1] * a[2], a[2] * b[2]>>)

FracTimes(a, k) == Reduced(<<a[1] * k, a[2]>>)

\* a / b for b > 0
FracDiv(a, b) == Reduced(<<a[1] * b[2], a[2] * b[1]>>)

Thirds == 3

\* words dropped from an ingredient (lines 182-184)
QuantityWords ==
    {"1", "2", "cup", "cups", "tablespoon", "tablespoons", "teaspoon",
     "teaspoons"}

\* ' '.join(word for word in ingredient.lower().split() if ...)
SimpleIngredient(ingredient) ==
    SelectSeq(Lower(ingredient), LAMBDA w : w \notin QuantityWords)

\* recipe.get(field, "").lower() raises AttributeError on a list
ExtractRaises(recipe) ==
    /\ "diet" \in DOMAIN recipe
    /\ recipe.diet.type = "list"

\* the feature names of a recipe
FeatureNames(recipe) ==
    {<<"cuisine", Lower(recipe[f])>> :
        f \in {g \in {"Cuisine"} \cap DOMAIN recipe : recipe[g] # <<>>}}
    \cup {<<"diet", Lower(recipe[f].v)>> :
        f \in {g \in {"diet"} \cap DOMAIN recipe : recipe[g].v # <<>>}}
    \cup {<<"course", Lower(recipe[f])>> :
        f \in {g \in {"course"} \cap DOMAIN recipe : recipe[g] # <<>>}}
    \cup {<<"ingredient", SimpleIngredient(recipe.ingredients[i])>> :
        i \in DOMAIN Get(recipe, "ingredients", <<>>)}

\* ingredient_counts[simple_ingredient]
IngredientCount(recipe, simple_ingredient) ==
    Cardinality({i \in DOMAIN recipe.ingredients :
                    SimpleIngredient(recipe.ingredients[i]) = simple_ingredient})

\* lines 157-206; a recipe of the catalog has no "time" key
extract_recipe_features(recipe) ==
    [name \in FeatureNames(recipe) |->
        IF name[1] = "ingredient"
        THEN Min(IngredientCount(recipe, name[2]), 3)
        ELSE Thirds]

RECURSIVE SumOver(_, _)
SumOver(f, keys) ==
    IF keys = {} THEN 0
    ELSE LET k == CHOOSE x \in keys : TRUE
         IN  f[k] + SumOver(f, keys \ {k})

\* np.dot on the vectors over all feature names; an absent feature is 0
Dot(f1, f2) ==
    SumOver([k \in DOMAIN f1 \cap DOMAIN f2 |-> f1[k] * f2[k]],
            DOMAIN f1 \cap DOMAIN f2)

\* np.linalg.norm; the recipes tried have whole norms
Norm(f) == CHOOSE r \in 0..Dot(f, f) : r * r = Dot(f, f)

\* variant: the quotient of line 88 without the test of line 85
CosineUnguarded(f1, f2) == <<Dot(f1, f2), Norm(f1) * Norm(f2)>>

\* lines 81-88
Cosine(f1, f2) ==
    IF Norm(f1) = 0 \/ Norm(f2) = 0
    THEN <<0, 1>>
    ELSE Reduced(<<Dot(f1, f2), Norm(f1) * Norm(f2)>>)

\* variant: entry [a][b] is computed from recipe a alone
ComputeSimilarityOneSided(features, old) ==
    IF features.keys = <<>>
    THEN old
    ELSE [keys |-> features.keys,
          val |-> [a \in DOMAIN features.val |->
                     [b \in DOMAIN features.val |->
                        IF a = b THEN <<1, 1>>
                        ELSE Cosine(features.val[a], features.val[a])]]]

\* variant: entries of pairs already in the matrix are kept, only the
\* entries of new recipe ids are computed
ComputeSimilarityKeepOld(features, old) ==
    IF features.keys = <<>>
    THEN old
    ELSE [keys |-> features.keys,
          val |-> [a \in DOMAIN features.val |->
                     [b \in DOMAIN features.val |->
                        IF a = b THEN <<1, 1>>
                        ELSE IF a \in DOMAIN old.val /\ b \in DOMAIN old.val
                             THEN old.val[a][b]
                             ELSE Cosine(features.val[a], features.val[b])]]]

\* lines 41-90: the matrix assigned to self.recipe_similarity, or the one
\* in place when there are no features
ComputeSimilarity(features, old) ==
    IF features.keys = <<>>
    THEN old
    ELSE [keys |-> features.keys,
          val |-> [a \in DOMAIN features.val |->
                     [b \in DOMAIN features.val |->
                        IF a = b THEN <<1, 1>>
                        ELSE Cosine(features.val[a], features.val[b])]]]

\* variant of InsertByValue: ascending
InsertByValueAscending(sorted, x) ==
    LET n == Cardinality({i \in DOMAIN sorted :
                 FracGe(x.value, sorted[i].value)})
    IN  SubSeq(sorted, 1, n) \o <<x>> \o SubSeq(sorted, n + 1, Len(sorted))

\* insert x behind every item whose value is at least x's
InsertByValue(sorted, x) ==
    LET n == Cardinality({i \in DOMAIN sorted :
                 FracGe(sorted[i].value, x.value)})
    IN  SubSeq(sorted, 1, n) \o <<x>> \o SubSeq(sorted, n + 1, Len(sorted))

\* sorted(d.items(), key=lambda x: x[1], reverse=True): stable
RECURSIVE SortedByValue(_)
SortedByValue(items) ==
    IF items = <<>> THEN <<>>
    ELSE InsertByValue(SortedByValue(SubSeq(items, 1, Len(items) - 1)),
                       items[Len(items)])

\* d.items() of an ordered dict of fractions
ItemsOf(keys, val) == [i \in DOMAIN keys |-> [key |-> keys[i], value |-> val[keys[i]]]]

KeysOfItems(items) == [i \in DOMAIN items |-> items[i].key]

\* lines 108-120
get_similar_recipes(similarity, recipe_id, n) ==
    IF recipe_id \notin DOMAIN similarity.val
    THEN <<>>
    ELSE KeysOfItems(SubSeq(
             SortedByValue(ItemsOf(similarity.keys, similarity.val[recipe_id])),
             2, Min(n + 1, Len(similarity.keys))))

\* the rated recipes that enter the sums for recipe_id (line 143)
Contributing(similarity, user_ratings, recipe_id) ==
    {r \in DOMAIN user_ratings :
        /\ r \in DOMAIN similarity.val
        /\ recipe_id \in DOMAIN similarity.val[r]}

RECURSIVE FracSum(_, _)
FracSum(f, keys) ==
    IF keys = {} THEN <<0, 1>>
    ELSE LET k == CHOOSE x \in keys : TRUE
         IN  FracAdd(f[k], FracSum(f, keys \ {k}))

\* numerator (lines 139-145)
Numerator(similarity, user_ratings, recipe_id, rated) ==
    FracSum([r \in rated |->
                FracTimes(similarity.val[r][recipe_id], user_ratings[r])],
            rated)

\* denominator (lines 140-146); similarities are never negative
Denominator(similarity, recipe_id, rated) ==
    FracSum([r \in rated |-> similarity.val[r][recipe_id]], rated)

\* the recipes that get a prediction, in the order of recipe_features
Predicted(features, similarity, user_ratings) ==
    SelectSeq(features.keys, LAMBDA id :
        /\ id \notin DOMAIN user_ratings
        /\ Denominator(similarity, id,
               Contributing(similarity, user_ratings, id))[1] > 0)

\* predicted_ratings[recipe_id]
PredictedRating(similarity, user_ratings, recipe_id) ==
    FracDiv(Numerator(similarity, user_ratings, recipe_id,
                Contributing(similarity, user_ratings, recipe_id)),
            Denominator(similarity, recipe_id,
                Contributing(similarity, user_ratings, recipe_id)))

PredictedItems(keys, similarity, user_ratings) ==
    [i \in DOMAIN keys |->
        [key |-> keys[i],
         value |-> PredictedRating(similarity, user_ratings, keys[i])]]

\* lines 122-155
get_personalized_recommendations(prefs, features, similarity, user_id, n) ==
    IF user_id \notin DOMAIN prefs
    THEN <<>>
    ELSE KeysOfItems(Head_n(
             SortedByValue(PredictedItems(
                 Predicted(features, similarity, prefs[user_id]),
                 similarity, prefs[user_id])),
             n))

NoFeatures == [keys |-> <<>>, val |-> EmptyDict]

NoRead == [fn |-> "none", arg |-> "", n |-> 0, result |-> <<>>]

\* the recommender as constructed with no data files
RecIdle ==
    /\ user_preferences = EmptyDict
    /\ recipe_features = NoFeatures
    /\ recipe_similarity = NoFeatures
    /\ rec_pc = "idle"
    /\ rec_ret = NoRead

-----------------------------------------------------------------------------
(* RecipeScaler (src/recipe_scaling.py).  An ingredient line is a sequence *)
(* of tokens: words, single blanks, and the numerals the quantity pattern  *)
(* ^([\d\s./]+) is made of: integers, fractions "n/d" and decimals with    *)
(* two places.  Quantities and factors are fractions.                      *)

W(w) == [kind |-> "word", w |-> w, n |-> 0, d |-> 1]

Sp == [kind |-> "space", w |-> " ", n |-> 0, d |-> 1]

IntTok(n) == [kind |-> "int", w |-> "", n |-> n, d |-> 1]

FracTok(n, d) == [kind |-> "frac", w |-> "", n |-> n, d |-> d]

\* a decimal numeral, n hundredths
DecTok(n) == [kind |-> "dec", w |-> "", n |-> n, d |-> 100]

\* str.lower() on a line
LowerLine(line) ==
    [i \in DOMAIN line |->
        IF line[i].kind = "word" THEN W(LowerWord(line[i].w)) ELSE line[i]]

NON_SCALABLE_UNITS ==
    << <<W("pinch")>>, <<W("pinches")>>, <<W("dash")>>, <<W("dashes")>>,
       <<W("to"), Sp, W("taste")>>, <<W("as"), Sp, W("needed")>> >>

\* any(term in ingredient.lower() for term in self.NON_SCALABLE_UNITS)
NonScalable(ingredient) ==
    \E i \in DOMAIN NON_SCALABLE_UNITS :
        Contains(NON_SCALABLE_UNITS[i], LowerLine(ingredient))

QuantityKinds == {"int", "frac", "dec", "space"}

\* length of the match of ^([\d\s./]+), 0 when there is none
QuantityLen(ingredient) ==
    Cardinality({i \in DOMAIN ingredient :
        \A j \in 1..i : ingredient[j].kind \in QuantityKinds})

\* str.strip() on the matched tokens
RECURSIVE StripLine(_)
StripLine(line) ==
    IF line = <<>> THEN line
    ELSE IF line[1].kind = "space" THEN StripLine(Tail(line))
    ELSE IF line[Len(line)].kind = "space"
         THEN StripLine(SubSeq(line, 1, Len(line) - 1))
    ELSE line

\* quantity_str
QuantityStr(ingredient) ==
    StripLine(SubSeq(ingredient, 1, QuantityLen(ingredient)))

HasKind(line, kind) == \E i \in DOMAIN line : line[i].kind = kind

\* lines 76-86: the quantity parsed, <<0, 0>> when parsing raises
\* ValueError or ZeroDivisionError
ParseQuantity(q) ==
    IF HasKind(q, "frac") /\ ~HasKind(q, "space")
    THEN IF Len(q) = 1 /\ q[1].d # 0 THEN Reduced(<<q[1].n, q[1].d>>)
         ELSE <<0, 0>>
    ELSE IF HasKind(q, "frac")
         THEN IF /\ Len(q) = 3
                 /\ q[1].kind = "int"
                 /\ q[2].kind = "space"
                 /\ q[3].kind = "frac"
                 /\ q[3].d # 0
              THEN Reduced(<<q[1].n * q[3].d + q[3].n, q[3].d>>)
              ELSE <<0, 0>>
         ELSE IF Len(q) = 1 /\ q[1].kind \in {"int", "dec"}
              THEN Reduced(<<q[1].n, q[1].d>>)
              ELSE <<0, 0>>

FracMul(a, b) == Reduced(<<a[1] * b[1], a[2] * b[2]>>)

\* |a - b|
FracAbsDiff(a, b) ==
    IF a[1] * b[2] >= b[1] * a[2]
    THEN Reduced(<<a[1] * b[2] - b[1] * a[2], a[2] * b[2]>>)
    ELSE Reduced(<<b[1] * a[2] - a[1] * b[2], a[2] * b[2]>>)

\* the keys and values of `fractions` (lines 113-123), in order
CookingFractions ==
    << [v |-> <<1, 8>>, n |-> 1, d |-> 8],
       [v |-> <<1, 4>>, n |-> 1, d |-> 4],
       [v |-> <<33, 100>>, n |-> 1, d |-> 3],
       [v |-> <<3, 8>>, n |-> 3, d |-> 8],
       [v |-> <<1, 2>>, n |-> 1, d |-> 2],
       [v |-> <<5, 8>>, n |-> 5, d |-> 8],
       [v |-> <<66, 100>>, n |-> 2, d |-> 3],
       [v |-> <<3, 4>>, n |-> 3, d |-> 4],
       [v |-> <<7, 8>>, n |-> 7, d |-> 8] >>

\* the tolerance of line 135
SnapTolerance == <<5, 100>>

\* int(decimal)
WholePart(x) == x[1] \div x[2]

\* decimal - whole_part
DecimalPart(x) == <<x[1] % x[2], x[2]>>

\* |decimal_part - frac_value| for the i-th fraction
SnapDiff(part, i) == FracAbsDiff(part, CookingFractions[i].v)

\* lines 133-137: index of the closest fraction, 0 when none is within
\* the tolerance; the first of equally close ones wins
ClosestFraction(part) ==
    IF \E i \in DOMAIN CookingFractions :
          FracGt(SnapTolerance, SnapDiff(part, i))
    THEN CHOOSE i \in DOMAIN CookingFractions :
            /\ FracGt(SnapTolerance, SnapDiff(part, i))
            /\ \A j \in DOMAIN CookingFractions :
                  /\ FracGe(SnapDiff(part, j), SnapDiff(part, i))
                  /\ j < i => FracGt(SnapDiff(part, j), SnapDiff(part, i))
    ELSE 0

\* lines 110-145: the tokens of the fraction string, <<>> for None
DecimalToFraction(whole_part, i) ==
    IF i = 0 THEN <<>>
    ELSE IF whole_part > 0
         THEN <<IntTok(whole_part), Sp,
                FracTok(CookingFractions[i].n, CookingFractions[i].d)>>
         ELSE <<FracTok(CookingFractions[i].n, CookingFractions[i].d)>>

\* round(100 * x)
Hundredths(x) == (200 * x[1] + x[2]) \div (2 * x[2])

\* f"{x:.2f}".rstrip('0').rstrip('.')
TwoPlaces(h) == IF h % 100 = 0 THEN <<IntTok(h \div 100)>> ELSE <<DecTok(h)>>

\* the value below which a quantity becomes "a pinch" (line 95)
PinchBelow == <<1, 8>>

APinch == <<W("a"), Sp, W("pinch")>>

\* lines 98-102: scaled_str for a quantity that is not a whole number
FormatPart(x, as_fraction) ==
    IF as_fraction # <<>> THEN as_fraction ELSE TwoPlaces(Hundredths(x))

\* lines 92-102: scaled_str
FormatQuantity(x) ==
    IF x[2] = 1 THEN <<IntTok(x[1])>>
    ELSE IF FracGt(PinchBelow, x) THEN APinch
    ELSE FormatPart(x, DecimalToFraction(WholePart(x),
                                         ClosestFraction(DecimalPart(x))))

\* lines 88-108 for a parsed quantity: re.sub replaces the whole match,
\* the blank after the numeral included
Rescaled(ingredient, quantity, scale_factor) ==
    IF quantity[2] = 0
    THEN ingredient
    ELSE FormatQuantity(FracMul(quantity, scale_factor))
         \o SubSeq(ingredient, QuantityLen(ingredient) + 1, Len(ingredient))

\* lines 59-108
scale_ingredient(ingredient, scale_factor) ==
    IF ingredient = <<>> \/ NonScalable(ingredient)
       \/ QuantityLen(ingredient) = 0
    THEN ingredient
    ELSE Rescaled(ingredient, ParseQuantity(QuantityStr(ingredient)),
                  scale_factor)

\* lines 37-41: scaled_ingredients
ScaledIngredients(ingredients, scale_factor) ==
    [i \in DOMAIN ingredients |->
        scale_ingredient(ingredients[i], scale_factor)]

\* lines 27-57, the ingredient list of the recipe returned; an empty
\* recipe has no ingredients
scale_recipe(ingredients, scale_factor) ==
    IF ingredients = <<>> \/ scale_factor[1] <= 0
    THEN ingredients
    ELSE ScaledIngredients(ingredients, scale_factor)

NoTransform ==
    [fn |-> "none", ingredients |-> <<>>, factor |-> <<1, 1>>,
     out |-> <<>>, back |-> <<>>, stage |-> "none"]

-----------------------------------------------------------------------------
(* Substitution suggestions (src/recipe_db.py, src/recipe_substitution.py). *)
(* Names are lines of word and blank tokens; `a in b` on strings is        *)
(* containment of whole tokens.                                            *)

\* a name of one, two or three words
Name1(a) == <<W(a)>>

Name2(a, b) == <<W(a), Sp, W(b)>>

Name3(a, b, c) == <<W(a), Sp, W(b), Sp, W(c)>>

Entry(main_ingredient, substitutes) ==
    [main_ingredient |-> main_ingredient, substitutes |-> substitutes]

\* the dict of src/recipe_db.py lines 38-59, in insertion order
INGREDIENT_SUBSTITUTIONS ==
    << Entry(Name2("bell", "pepper"),
             <<Name1("capsicum"), Name2("sweet", "pepper")>>),
       Entry(Name1("cilantro"),
             <<Name1("coriander"), Name2("chinese", "parsley")>>),
       Entry(Name1("eggplant"), <<Name1("aubergine")>>),
       Entry(Name1("zucchini"), <<Name1("courgette")>>),
       Entry(Name1("scallion"),
             <<Name2("green", "onion"), Name2("spring", "onion")>>),
       Entry(Name1("arugula"), <<Name1("rocket")>>),
       Entry(Name1("chickpeas"), <<Name2("garbanzo", "beans")>>),
       Entry(Name2("ground", "beef"),
             <<Name2("minced", "beef"), Name2("hamburger", "meat")>>),
       Entry(Name2("powdered", "sugar"),
             <<Name2("icing", "sugar"), Name2("confectioners'", "sugar")>>),
       Entry(Name2("heavy", "cream"),
             <<Name2("double", "cream"), Name2("whipping", "cream")>>),
       Entry(Name2("all-purpose", "flour"), <<Name2("plain", "flour")>>),
       Entry(Name1("cornstarch"), <<Name2("corn", "flour")>>),
       Entry(Name2("baking", "soda"), <<Name3("bicarbonate", "of", "soda")>>),
       Entry(Name1("cookie"), <<Name1("biscuit")>>),
       Entry(Name1("shrimp"), <<Name1("prawns")>>),
       Entry(Name1("candy"), <<Name1("sweets")>>),
       Entry(Name1("chips"), <<Name1("crisps")>>),
       Entry(Name2("french", "fries"), <<Name1("chips")>>),
       Entry(Name1("ketchup"), <<Name2("tomato", "sauce")>>),
       Entry(Name1("jelly"), <<Name1("jam")>>) >>

\* lines 412-418: the suggestion of the main ingredient when one of its
\* substitutes is in the line; the break leaves the loop over substitutes
SubstituteMatch(ingredient, entry) ==
    IF \E s \in DOMAIN entry.substitutes :
          Contains(entry.substitutes[s], LowerLine(ingredient))
    THEN <<[original |-> ingredient,
            substitutes |-> <<entry.main_ingredient>>]>>
    ELSE <<>>

\* lines 403-418: the suggestions one ingredient adds, from the i-th entry
\* of the dict on; only a match of the main ingredient ends the loop
RECURSIVE SuggestionsFrom(_, _)
SuggestionsFrom(ingredient, i) ==
    IF i > Len(INGREDIENT_SUBSTITUTIONS) THEN <<>>
    ELSE IF Contains(INGREDIENT_SUBSTITUTIONS[i].main_ingredient,
                     LowerLine(ingredient))
         THEN <<[original |-> ingredient,
                 substitutes |-> INGREDIENT_SUBSTITUTIONS[i].substitutes]>>
         ELSE SubstituteMatch(ingredient, INGREDIENT_SUBSTITUTIONS[i])
              \o SuggestionsFrom(ingredient, i + 1)

\* src/recipe_db.py lines 396-420
RECURSIVE suggest_ingredient_substitutions(_)
suggest_ingredient_substitutions(ingredients) ==
    IF ingredients = <<>> THEN <<>>
    ELSE SuggestionsFrom(Head(ingredients), 1)
         \o suggest_ingredient_substitutions(Tail(ingredients))

\* `ingredient in table` for a dict given as a sequence of key and value
DirectMatch(table, ingredient) ==
    \E i \in DOMAIN table : table[i].key = ingredient

\* table[ingredient]
ValueAt(table, ingredient) ==
    table[CHOOSE i \in DOMAIN table : table[i].key = ingredient].value

\* the partial-match loops of lines 47-50 and 73-76, from the i-th key on
RECURSIVE PartialMatches(_, _, _)
PartialMatches(table, ingredient, i) ==
    IF i > Len(table) THEN <<>>
    ELSE (IF Contains(table[i].key, ingredient)
             \/ Contains(ingredient, table[i].key)
          THEN table[i].value ELSE <<>>)
         \o PartialMatches(table, ingredient, i + 1)

\* direct match, then partial matches (lines 42-52, 68-78)
Lookup(table, ingredient) ==
    IF DirectMatch(table, ingredient) THEN ValueAt(table, ingredient)
    ELSE PartialMatches(table, ingredient, 1)

\* src/recipe_substitution.py lines 35-52
find_substitutions(substitutions, ingredient) ==
    IF ingredient = <<>> \/ substitutions = <<>> THEN <<>>
    ELSE Lookup(substitutions, LowerLine(ingredient))

\* src/recipe_substitution.py lines 54-78; diet "" stands for None
find_dietary_substitutions(dietary_substitutions, ingredient, diet) ==
    IF ingredient = <<>> \/ diet = ""
       \/ DOMAIN dietary_substitutions = {}
    THEN <<>>
    ELSE IF LowerWord(diet) \notin DOMAIN dietary_substitutions THEN <<>>
    ELSE Lookup(dietary_substitutions[LowerWord(diet)],
                LowerLine(ingredient))

\* lines 100-101: general substitutions when no dietary ones were found
SubsOrGeneral(subs, substitutions, ingredient) ==
    IF subs = <<>> THEN find_substitutions(substitutions, ingredient)
    ELSE subs

\* lines 103-107
SuggestionOf(ingredient, subs) ==
    IF subs = <<>> THEN <<>>
    ELSE <<[original |-> ingredient, substitutions |-> subs]>>

\* src/recipe_substitution.py lines 80-109
RECURSIVE suggest_recipe_substitutions(_, _, _, _)
suggest_recipe_substitutions(substitutions, dietary_substitutions, ingredients, diet) ==
    IF ingredients = <<>> THEN <<>>
    ELSE SuggestionOf(Head(ingredients),
                      SubsOrGeneral(
                          find_dietary_substitutions(dietary_substitutions,
                                                     Head(ingredients), diet),
                          substitutions, Head(ingredients)))
         \o suggest_recipe_substitutions(substitutions, dietary_substitutions,
                                         Tail(ingredients), diet)

\* no query built yet
NoBuilt ==
    [fn |-> "none", preferences |-> [keys |-> <<>>, val |-> EmptyDict],
     raises |-> FALSE, query |-> EmptyDict]

\* the RateLimiter the module constructs (src/api.py line 72), before any
\* request: the clock reads 0, `accepted` is the log of the requests let
\* through, per client, and `response` the answer to the last request
NoLimiter ==
    [requests_per_minute |-> RequestsPerMinute, request_history |-> EmptyDict,
     now |-> 0, accepted |-> EmptyDict, response |-> "none"]

-----------------------------------------------------------------------------
(* State machine *)

NoRet ==
    [results |-> <<>>, relaxed |-> <<>>, detailed_results |-> <<>>,
     total_matches |-> 0, scored |-> FALSE]

NoPrefs == [keys |-> <<>>, val |-> EmptyDict]

Init ==
    /\ collection \in {"None", "Collection"}
    /\ catalog \in Catalogs
    /\ collection = "None" => catalog = <<>>
    /\ pc = "idle"
    /\ fn = "none"
    /\ preferences = NoPrefs
    /\ max_relaxations = DefaultMaxRelaxations
    /\ relaxed = <<>>
    /\ relaxed_preferences = NoPrefs
    /\ ret = NoRet
    /\ path = "none"
    /\ raised = [ws |-> "none", swf |-> "none"]
    /\ pantry_call = NoCall
    /\ pantry_prev = NoCall
    /\ RecIdle
    /\ transform = NoTransform
    /\ built = NoBuilt
    /\ limiter = NoLimiter

\* return {"results": results, "relaxed": rel} from search_with_fallback
Return(results, rel, via) ==
    /\ ret' = [NoRet EXCEPT !.results = results, !.relaxed = rel]
    /\ path' = via
    /\ pc' = "done"

\* an exception inside the try block of search_with_fallback
Raise(what) ==
    /\ raised' = [raised EXCEPT !.swf = what]
    /\ pc' = "swf_except"
    /\ UNCHANGED <<ret, path>>

\* variant: the most important key still in the map is taken first
NextConstraintMostImportant(p) ==
    LET present == SelectSeq(relaxation_order, LAMBDA k : PrefHas(p, k))
    IN  IF present = <<>> THEN "" ELSE present[Len(present)]

\* first key of relaxation_order still in the map, "" when none
NextConstraint(p) ==
    LET present == SelectSeq(relaxation_order, LAMBDA k : PrefHas(p, k))
    IN  IF present = <<>> THEN "" ELSE present[1]

\* the caller invokes search_with_fallback(preferences)
CallSearchWithFallback ==
    /\ pc = "idle"
    /\ \E p \in PrefMaps : preferences' = p
    /\ fn' = "search_with_fallback"
    /\ max_relaxations' = DefaultMaxRelaxations
    /\ pc' = "swf_enter"
    /\ relaxed' = <<>>
    /\ relaxed_preferences' = NoPrefs
    /\ ret' = NoRet
    /\ path' = "none"
    /\ raised' = [ws |-> "none", swf |-> "none"]
    /\ UNCHANGED <<collection, catalog>>
    /\ UNCHANGED nonSearchVars

\* lines 179-188: store unavailable, filter the seed set
SwfLocalExact ==
    /\ pc = "swf_enter"
    /\ collection = "None"
    /\ LET f == filter_recipes(SAMPLE_RECIPES, preferences)
       IN  IF f.raises
           THEN Raise("filter") /\ UNCHANGED <<relaxed, relaxed_preferences>>
           ELSE IF f.results # <<>>
                THEN /\ Return(f.results, <<>>, "local_exact")
                     /\ UNCHANGED <<relaxed, relaxed_preferences, raised>>
                ELSE /\ relaxed' = <<>>
                     /\ relaxed_preferences' = preferences
                     /\ pc' = "swf_local_relax"
                     /\ UNCHANGED <<ret, path, raised>>
    /\ UNCHANGED <<collection, catalog, fn, preferences, max_relaxations>>
    /\ UNCHANGED nonSearchVars

\* lines 193-207: one iteration of the local relaxation loop, or its end
SwfLocalRelax ==
    /\ pc = "swf_local_relax"
    /\ LET c == NextConstraint(relaxed_preferences)
           rp == PrefDel(relaxed_preferences, c)
           rel == Append(relaxed, c)
           f == filter_recipes(SAMPLE_RECIPES, rp)
       IN  IF c = ""
           THEN /\ Return(Head_n(SAMPLE_RECIPES, SampleSlice),
                          preferences.keys, "local_last")
                /\ UNCHANGED <<relaxed, relaxed_preferences, raised>>
           ELSE /\ relaxed_preferences' = rp
                /\ relaxed' = rel
                /\ IF f.raises
                   THEN Raise("filter")
                   ELSE IF f.results # <<>>
                        THEN Return(f.results, rel, "local_relax")
                             /\ UNCHANGED raised
                        ELSE IF Len(rel) >= max_relaxations
                             THEN /\ Return(Head_n(SAMPLE_RECIPES, SampleSlice),
                                            preferences.keys, "local_last")
                                  /\ UNCHANGED raised
                             ELSE UNCHANGED <<pc, ret, path, raised>>
    /\ UNCHANGED <<collection, catalog, fn, preferences, max_relaxations>>
    /\ UNCHANGED nonSearchVars

\* lines 209-218: the exact query
SwfExact ==
    /\ pc = "swf_enter"
    /\ collection # "None"
    /\ LET b == build_optimized_query(preferences)
       IN  IF b.raises
           THEN Raise("build") /\ UNCHANGED <<relaxed, relaxed_preferences>>
           ELSE \E fails \in BOOLEAN :
                  IF fails
                  THEN Raise("store") /\ UNCHANGED <<relaxed, relaxed_preferences>>
                  ELSE LET results == FindPage(catalog, b.query)
                       IN  IF results # <<>>
                           THEN /\ Return(results, <<>>, "exact")
                                /\ UNCHANGED <<relaxed, relaxed_preferences, raised>>
                           ELSE /\ relaxed' = <<>>
                                /\ relaxed_preferences' = preferences
                                /\ pc' = "swf_relax"
                                /\ UNCHANGED <<ret, path, raised>>
    /\ UNCHANGED <<collection, catalog, fn, preferences, max_relaxations>>
    /\ UNCHANGED nonSearchVars

\* variant: relaxed_preferences is the caller's map itself, not a copy of
\* it, so the del of line 225 reaches the caller
SwfRelaxInPlace ==
    /\ pc = "swf_relax"
    /\ LET c == NextConstraint(relaxed_preferences)
           rp == PrefDel(relaxed_preferences, c)
           rel == Append(relaxed, c)
           b == build_optimized_query(rp)
       IN  IF c = ""
           THEN /\ pc' = "swf_minimal"
                /\ UNCHANGED <<relaxed, relaxed_preferences, preferences, ret,
                               path, raised>>
           ELSE /\ relaxed_preferences' = rp
                /\ preferences' = rp
                /\ relaxed' = rel
                /\ IF b.raises
                   THEN Raise("build")
                   ELSE \E fails \in BOOLEAN :
                          IF fails
                          THEN Raise("store")
                          ELSE LET results == FindPage(catalog, b.query)
                               IN  IF results # <<>>
                                   THEN Return(results, rel, "relax")
                                        /\ UNCHANGED raised
                                   ELSE /\ pc' = IF Len(rel) >= max_relaxations
                                                 THEN "swf_minimal"
                                                 ELSE "swf_relax"
                                        /\ UNCHANGED <<ret, path, raised>>
    /\ UNCHANGED <<collection, catalog, fn, max_relaxations>>
    /\ UNCHANGED nonSearchVars

\* lines 223-236: one iteration of the relaxation loop, or its end
SwfRelax ==
    /\ pc = "swf_relax"
    /\ LET c == NextConstraint(relaxed_preferences)
           rp == PrefDel(relaxed_preferences, c)
           rel == Append(relaxed, c)
           b == build_optimized_query(rp)
       IN  IF c = ""
           THEN /\ pc' = "swf_minimal"
                /\ UNCHANGED <<relaxed, relaxed_preferences, ret, path, raised>>
           ELSE /\ relaxed_preferences' = rp
                /\ relaxed' = rel
                /\ IF b.raises
                   THEN Raise("build")
                   ELSE \E fails \in BOOLEAN :
                          IF fails
                          THEN Raise("store")
                          ELSE LET results == FindPage(catalog, b.query)
                               IN  IF results # <<>>
                                   THEN Return(results, rel, "relax")
                                        /\ UNCHANGED raised
                                   ELSE /\ pc' = IF Len(rel) >= max_relaxations
                                                 THEN "swf_minimal"
                                                 ELSE "swf_relax"
                                        /\ UNCHANGED <<ret, path, raised>>
    /\ UNCHANGED <<collection, catalog, fn, preferences, max_relaxations>>
    /\ UNCHANGED nonSearchVars

\* keys of p other than diet that are not in rel, in insertion order
RemainingKeys(p, rel) ==
    SelectSeq(p.keys,
              LAMBDA k : k # "diet" /\ ~\E i \in DOMAIN rel : rel[i] = k)

\* lines 238-247: the diet-only query
SwfMinimal ==
    /\ pc = "swf_minimal"
    /\ IF PrefHas(preferences, "diet")
       THEN LET minimal_preferences ==
                    [keys |-> <<"diet">>, val |-> preferences.val]
                b == build_optimized_query(minimal_preferences)
            IN  \E fails \in BOOLEAN :
                  IF fails
                  THEN Raise("store") /\ UNCHANGED relaxed
                  ELSE LET results == FindPage(catalog, b.query)
                       IN  IF results # <<>>
                           THEN /\ relaxed' =
                                      relaxed \o RemainingKeys(preferences, relaxed)
                                /\ Return(results, relaxed', "minimal")
                                /\ UNCHANGED raised
                           ELSE /\ pc' = "swf_last"
                                /\ UNCHANGED <<relaxed, ret, path, raised>>
       ELSE /\ pc' = "swf_last"
            /\ UNCHANGED <<relaxed, ret, path, raised>>
    /\ UNCHANGED <<collection, catalog, fn, preferences, max_relaxations,
                   relaxed_preferences>>
    /\ UNCHANGED nonSearchVars

\* lines 249-251: any recipes
SwfLast ==
    /\ pc = "swf_last"
    /\ \E fails \in BOOLEAN :
          IF fails
          THEN Raise("store")
          ELSE /\ Return(FindPage(catalog, EmptyDict), preferences.keys, "last")
               /\ UNCHANGED raised
    /\ UNCHANGED <<collection, catalog, fn, preferences, max_relaxations,
                   relaxed, relaxed_preferences>>
    /\ UNCHANGED nonSearchVars

\* variant: the except branch re-raises instead of filtering the seed set
SwfExceptReraises ==
    /\ pc = "swf_except"
    /\ ret' = NoRet
    /\ path' = "propagated"
    /\ pc' = "done"
    /\ UNCHANGED <<collection, catalog, fn, preferences, max_relaxations,
                   relaxed, relaxed_preferences, raised>>
    /\ UNCHANGED nonSearchVars

\* lines 253-262: the except branch; an exception raised here propagates
SwfExcept ==
    /\ pc = "swf_except"
    /\ LET f == filter_recipes(SAMPLE_RECIPES, preferences)
       IN  IF f.raises
           THEN /\ ret' = NoRet
                /\ path' = "propagated"
                /\ pc' = "done"
           ELSE IF f.results # <<>>
                THEN Return(f.results, <<>>, "except_filter")
                ELSE Return(Head_n(SAMPLE_RECIPES, SampleSlice),
                            preferences.keys, "except_last")
    /\ UNCHANGED <<collection, catalog, fn, preferences, max_relaxations,
                   relaxed, relaxed_preferences, raised>>
    /\ UNCHANGED nonSearchVars

\* the caller invokes search_with_weighted_scoring(preferences)
CallSearchWithWeightedScoring ==
    /\ pc = "idle"
    /\ \E p \in PrefMaps : preferences' = p
    /\ fn' = "search_with_weighted_scoring"
    /\ max_relaxations' = DefaultMaxRelaxations
    /\ pc' = "ws_enter"
    /\ relaxed' = <<>>
    /\ relaxed_preferences' = NoPrefs
    /\ ret' = NoRet
    /\ path' = "none"
    /\ raised' = [ws |-> "none", swf |-> "none"]
    /\ UNCHANGED <<collection, catalog>>
    /\ UNCHANGED nonSearchVars

\* lines 469-553 on the candidates fetched
Rank(all_recipes) ==
    IF \E i \in DOMAIN all_recipes :
          ScoreRaises(RecipeOf(all_recipes[i]), preferences)
    THEN /\ raised' = [raised EXCEPT !.ws = "score"]
         /\ pc' = "ws_except"
         /\ UNCHANGED <<ret, path>>
    ELSE LET scored_recipes ==
                 SortByScore([i \in DOMAIN all_recipes |->
                     ScoreRecipe(all_recipes[i], preferences, default_weights)])
             top == Head_n(scored_recipes, PageLimit)
         IN  /\ ret' = [results |-> [i \in DOMAIN top |-> top[i].recipe],
                        relaxed |-> <<>>,
                        detailed_results |-> top,
                        total_matches |-> Len(scored_recipes),
                        scored |-> TRUE]
             /\ path' = "scored"
             /\ pc' = "done"
             /\ UNCHANGED raised

\* lines 450-553: fetch the candidates, score, sort, return
WsRank ==
    /\ pc = "ws_enter"
    /\ IF collection = "None"
       THEN Rank(SAMPLE_RECIPES)
       ELSE \E fails \in BOOLEAN :
              IF fails
              THEN /\ raised' = [raised EXCEPT !.ws = "store"]
                   /\ pc' = "ws_except"
                   /\ UNCHANGED <<ret, path>>
              ELSE Rank(Find(catalog, minimal_query(preferences)))
    /\ UNCHANGED <<collection, catalog, fn, preferences, max_relaxations,
                   relaxed, relaxed_preferences>>
    /\ UNCHANGED nonSearchVars

\* lines 555-558: return search_with_fallback(preferences)
WsExcept ==
    /\ pc = "ws_except"
    /\ pc' = "swf_enter"
    /\ max_relaxations' = DefaultMaxRelaxations
    /\ UNCHANGED <<collection, catalog, fn, preferences, relaxed,
                   relaxed_preferences, ret, path, raised>>
    /\ UNCHANGED nonSearchVars

\* the caller takes the result; the next request may follow
Finish ==
    /\ pc = "done"
    /\ pc' = "idle"
    /\ fn' = "none"
    /\ preferences' = NoPrefs
    /\ relaxed' = <<>>
    /\ relaxed_preferences' = NoPrefs
    /\ ret' = NoRet
    /\ path' = "none"
    /\ raised' = [ws |-> "none", swf |-> "none"]
    /\ UNCHANGED <<collection, catalog, max_relaxations>>
    /\ UNCHANGED nonSearchVars

Next ==
    \/ CallSearchWithFallback
    \/ SwfLocalExact
    \/ SwfLocalRelax
    \/ SwfExact
    \/ SwfRelax
    \/ SwfMinimal
    \/ SwfLast
    \/ SwfExcept
    \/ CallSearchWithWeightedScoring
    \/ WsRank
    \/ WsExcept
    \/ Finish

Spec == Init /\ [][Next]_vars

-----------------------------------------------------------------------------
(* Pantry matcher: the calls *)

\* no search in progress
SearchIdle ==
    /\ pc = "idle"
    /\ fn = "none"
    /\ preferences = NoPrefs
    /\ max_relaxations = DefaultMaxRelaxations
    /\ relaxed = <<>>
    /\ relaxed_preferences = NoPrefs
    /\ ret = NoRet
    /\ path = "none"
    /\ raised = [ws |-> "none", swf |-> "none"]

\* what the user may have at home, as typed
PantryItems ==
    {<<"chicken">>, <<"rice">>, <<"Onion", " ">>, <<"pepper">>,
     <<"brown", "rice">>}

Pantries ==
    UNION {{a \in [1..n -> PantryItems] :
                \A i, j \in 1..n : i # j => a[i] # a[j]} : n \in 0..MaxPantry}

\* min_match_percentage: 0, 0.5, the default 0.6, 1
DefaultMinMatch == <<3, 5>>

Thresholds == {<<0, 1>>, <<1, 2>>, DefaultMinMatch, <<1, 1>>}

PantryCatalogs ==
    UNION {{c \in [1..n -> PantryIds] :
                \A i, j \in 1..n : i # j => c[i] # c[j]} :
           n \in 0..MaxPantryCatalog}

PantryInit ==
    /\ collection \in {"None", "Collection"}
    /\ catalog \in PantryCatalogs
    /\ collection = "None" => catalog = <<>>
    /\ SearchIdle
    /\ pantry_call = NoCall
    /\ pantry_prev = NoCall
    /\ RecIdle
    /\ transform = NoTransform
    /\ built = NoBuilt
    /\ limiter = NoLimiter

\* the call made and what it returned
Called(f, recipes, available_ingredients, min_match, result, exc) ==
    /\ pantry_call' = [fn |-> f, recipes |-> recipes,
                       available_ingredients |-> available_ingredients,
                       min_match_percentage |-> min_match,
                       ret |-> result, raised |-> exc]
    /\ pantry_prev' = pantry_call
    /\ UNCHANGED nonPantryVars

\* lines 322-364, the whole function
search_by_available_ingredients(available_ingredients, min_match) ==
    IF collection = "None"
    THEN Called("search_by_available_ingredients", <<>>,
                available_ingredients, min_match,
                filter_by_available_ingredients(SAMPLE_RECIPES,
                    available_ingredients, min_match),
                FALSE)
    ELSE \E fails \in BOOLEAN :
           IF fails
           THEN Called("search_by_available_ingredients", <<>>,
                       available_ingredients, min_match, <<>>, TRUE)
           ELSE Called("search_by_available_ingredients", <<>>,
                       available_ingredients, min_match,
                       RankAndStrip(
                           EntriesOf(PotentialRecipes(catalog,
                                         Normalized(available_ingredients)),
                                     Normalized(available_ingredients)),
                           min_match),
                       FALSE)

\* a caller searches with a pantry
CallSearchByAvailableIngredients ==
    /\ pantry_call = NoCall
    /\ \E a \in Pantries, m \in Thresholds :
          search_by_available_ingredients(a, m)

\* a caller filters a list of recipes with a pantry; the function reads
\* neither collection nor the store, so it is tried with the store empty
CallFilterByAvailableIngredients ==
    /\ pantry_call = NoCall
    /\ catalog = <<>>
    /\ \E r \in PantryCatalogs, a \in Pantries, m \in Thresholds :
          Called("filter_by_available_ingredients", r, a, m,
                 filter_by_available_ingredients(r, a, m), FALSE)

\* the same call again, with one more item in the pantry
CallAgainWithOneMore ==
    /\ pantry_call # NoCall
    /\ pantry_prev = NoCall
    /\ Len(pantry_call.available_ingredients) < MaxPantry
    /\ \E item \in PantryItems :
          /\ \A i \in DOMAIN pantry_call.available_ingredients :
                pantry_call.available_ingredients[i] # item
          /\ IF pantry_call.fn = "search_by_available_ingredients"
             THEN search_by_available_ingredients(
                      Append(pantry_call.available_ingredients, item),
                      pantry_call.min_match_percentage)
             ELSE Called("filter_by_available_ingredients",
                         pantry_call.recipes,
                         Append(pantry_call.available_ingredients, item),
                         pantry_call.min_match_percentage,
                         filter_by_available_ingredients(
                             pantry_call.recipes,
                             Append(pantry_call.available_ingredients, item),
                             pantry_call.min_match_percentage),
                         FALSE)

PantryNext ==
    \/ CallSearchByAvailableIngredients
    \/ CallFilterByAvailableIngredients
    \/ CallAgainWithOneMore

PantrySpec == PantryInit /\ [][PantryNext]_vars

-----------------------------------------------------------------------------
(* RecipeRecommender: the calls.  update_recipe_features takes two steps,  *)
(* the assignment of line 211 and the rebuild of line 214, so that a read  *)
(* from another thread can fall between them.  The first MaxRated recipe   *)
(* ids are the ones that get rated.                                        *)

\* recipe ids, in the order in which they are first used
RecipeIds == <<"r1", "r2", "r3", "r4">>

UserIds == {"u1", "u2"}

Ratings == {1, 5}

\* how many recipes are asked for
Counts == {1, 2}

\* recipes handed to update_recipe_features: one feature, four features
\* of which one ingredient counted three times, no feature, and a
\* document of the catalog
RecipeInputs ==
    { [Cuisine |-> <<"Indian">>],
      [Cuisine |-> <<"Indian">>,
       diet |-> [type |-> "str", v |-> <<"Vegan">>],
       course |-> <<"Dessert">>,
       ingredients |-> << <<"2", "cups", "rice">>, <<"1", "cup", "rice">>,
                          <<"rice">> >>],
      [RecipeName |-> <<"Plain", "Water">>],
      RecipeOf(1) }

\* the ids an update may name: those in use and the next unused one
UsableIds ==
    {RecipeIds[i] : i \in 1..Min(Len(recipe_features.keys) + 1, Len(RecipeIds))}

\* d[k] = v on an ordered dict
OrderedSet(d, k, v) ==
    [keys |-> IF k \in DOMAIN d.val THEN d.keys ELSE Append(d.keys, k),
     val |-> DictSet(d.val, k, v)]

RecInit ==
    /\ collection = "None"
    /\ catalog = <<>>
    /\ SearchIdle
    /\ pantry_call = NoCall
    /\ pantry_prev = NoCall
    /\ RecIdle
    /\ transform = NoTransform
    /\ built = NoBuilt
    /\ limiter = NoLimiter

\* lines 208-211: extract the features and store them
UpdateRecipeFeatures ==
    /\ rec_pc = "idle"
    /\ rec_ret = NoRead
    /\ \E recipe_id \in UsableIds, recipe \in RecipeInputs :
          IF ExtractRaises(recipe)
          THEN UNCHANGED <<recipe_features, rec_pc>>
          ELSE /\ recipe_features' =
                     OrderedSet(recipe_features, recipe_id,
                                extract_recipe_features(recipe))
               /\ rec_pc' = "rebuild"
    /\ UNCHANGED <<user_preferences, recipe_similarity, rec_ret>>
    /\ UNCHANGED nonRecVars

\* lines 213-222: rebuild the matrix and assign it
RebuildSimilarity ==
    /\ rec_pc = "rebuild"
    /\ rec_ret = NoRead
    /\ recipe_similarity' = ComputeSimilarity(recipe_features, recipe_similarity)
    /\ rec_pc' = "idle"
    /\ UNCHANGED <<user_preferences, recipe_features, rec_ret>>
    /\ UNCHANGED nonRecVars

\* the ratings of a user, {} for a user without any
RatingsOf(user_id) ==
    IF user_id \in DOMAIN user_preferences
    THEN user_preferences[user_id]
    ELSE EmptyDict

\* lines 93-106
UpdateUserPreferences ==
    /\ rec_ret = NoRead
    /\ \E user_id \in {"u1"}, i \in 1..MaxRated, rating \in Ratings :
          user_preferences' =
              DictSet(user_preferences, user_id,
                      DictSet(RatingsOf(user_id), RecipeIds[i], rating))
    /\ UNCHANGED <<recipe_features, recipe_similarity, rec_pc, rec_ret>>
    /\ UNCHANGED nonRecVars

\* a call of get_similar_recipes, from any thread
GetSimilarRecipes ==
    /\ rec_ret = NoRead
    /\ \E i \in DOMAIN RecipeIds, n \in Counts :
          rec_ret' = [fn |-> "get_similar_recipes", arg |-> RecipeIds[i],
                      n |-> n,
                      result |-> get_similar_recipes(recipe_similarity,
                                                     RecipeIds[i], n)]
    /\ UNCHANGED <<user_preferences, recipe_features, recipe_similarity,
                   rec_pc>>
    /\ UNCHANGED nonRecVars

\* a call of get_personalized_recommendations, from any thread
GetPersonalizedRecommendations ==
    /\ rec_ret = NoRead
    /\ \E user_id \in UserIds, n \in Counts :
          rec_ret' = [fn |-> "get_personalized_recommendations",
                      arg |-> user_id, n |-> n,
                      result |-> get_personalized_recommendations(
                                     user_preferences, recipe_features,
                                     recipe_similarity, user_id, n)]
    /\ UNCHANGED <<user_preferences, recipe_features, recipe_similarity,
                   rec_pc>>
    /\ UNCHANGED nonRecVars

\* the reader takes the list returned to it
TakeResult ==
    /\ rec_ret # NoRead
    /\ rec_ret' = NoRead
    /\ UNCHANGED <<user_preferences, recipe_features, recipe_similarity,
                   rec_pc>>
    /\ UNCHANGED nonRecVars

RecNext ==
    \/ UpdateRecipeFeatures
    \/ RebuildSimilarity
    \/ UpdateUserPreferences
    \/ GetSimilarRecipes
    \/ GetPersonalizedRecommendations
    \/ TakeResult

RecSpec == RecInit /\ [][RecNext]_vars

-----------------------------------------------------------------------------
(* Scaling and substitution calls *)

MaxIngredients == 2

\* ingredient lines: "1 cup sugar", "1/2 cup milk", "1 1/2 cups flour",
\* "2 eggs", "1 pinch salt", "1.5 l water", "salt to taste",
\* "shrimp with coriander", "bell pepper"
Lines ==
    { <<IntTok(1), Sp, W("cup"), Sp, W("sugar")>>,
      <<FracTok(1, 2), Sp, W("cup"), Sp, W("milk")>>,
      <<IntTok(1), Sp, FracTok(1, 2), Sp, W("cups"), Sp, W("flour")>>,
      <<IntTok(2), Sp, W("eggs")>>,
      <<IntTok(1), Sp, W("pinch"), Sp, W("salt")>>,
      <<DecTok(150), Sp, W("l"), Sp, W("water")>>,
      <<W("salt"), Sp, W("to"), Sp, W("taste")>>,
      Name3("shrimp", "with", "coriander"),
      Name2("bell", "pepper") }

IngredientLists == UNION {[1..n -> Lines] : n \in 0..MaxIngredients}

\* scale factors: 0, 1/10, 1/3, 1/2, 2, 3, 10
Factors ==
    {<<0, 1>>, <<1, 10>>, <<1, 3>>, <<1, 2>>, <<2, 1>>, <<3, 1>>, <<10, 1>>}

\* the contents data/substitutions.json may have
SubstitutionTables ==
    { <<>>,
      << [key |-> Name1("milk"), value |-> <<"oat milk", "soy milk">>],
         [key |-> Name1("sugar"), value |-> <<"honey">>] >> }

\* the contents data/dietary_substitutions.json may have
DietaryTables ==
    { EmptyDict,
      [d \in {"vegan"} |->
          << [key |-> Name1("eggs"), value |-> <<"flax egg">>] >>] }

Diets == {"", "Vegan", "keto"}

TransformInit ==
    /\ collection = "None"
    /\ catalog = <<>>
    /\ SearchIdle
    /\ pantry_call = NoCall
    /\ pantry_prev = NoCall
    /\ RecIdle
    /\ transform = NoTransform
    /\ built = NoBuilt
    /\ limiter = NoLimiter

\* scale_recipe(recipe, scale_factor)
ScaleRecipe ==
    /\ transform = NoTransform
    /\ \E ingredients \in IngredientLists, scale_factor \in Factors :
          transform' = [fn |-> "scale_recipe",
                        ingredients |-> ingredients,
                        factor |-> scale_factor,
                        out |-> scale_recipe(ingredients, scale_factor),
                        back |-> <<>>,
                        stage |-> "scaled"]
    /\ UNCHANGED nonTransformVars

\* scale_recipe(scaled, 1 / scale_factor) on the recipe the last call
\* returned
ScaleBack ==
    /\ transform.fn = "scale_recipe"
    /\ transform.stage = "scaled"
    /\ transform.factor[1] > 0
    /\ transform' =
          [transform EXCEPT
              !.back = scale_recipe(transform.out,
                                    FracDiv(<<1, 1>>, transform.factor)),
              !.stage = "restored"]
    /\ UNCHANGED nonTransformVars

\* suggest_ingredient_substitutions(recipe) of src/recipe_db.py
SuggestIngredientSubstitutions ==
    /\ transform = NoTransform
    /\ \E ingredients \in IngredientLists :
          transform' = [fn |-> "suggest_ingredient_substitutions",
                        ingredients |-> ingredients,
                        factor |-> <<1, 1>>,
                        out |-> suggest_ingredient_substitutions(ingredients),
                        back |-> <<>>,
                        stage |-> "suggested"]
    /\ UNCHANGED nonTransformVars

\* RecipeSubstitutionEngine().suggest_recipe_substitutions(recipe, diet)
SuggestRecipeSubstitutions ==
    /\ transform = NoTransform
    /\ \E ingredients \in IngredientLists, diet \in Diets,
          substitutions \in SubstitutionTables,
          dietary_substitutions \in DietaryTables :
          transform' = [fn |-> "suggest_recipe_substitutions",
                        ingredients |-> ingredients,
                        factor |-> <<1, 1>>,
                        out |-> suggest_recipe_substitutions(
                                    substitutions, dietary_substitutions,
                                    ingredients, diet),
                        back |-> <<>>,
                        stage |-> "suggested"]
    /\ UNCHANGED nonTransformVars

\* the caller takes the result; the next call starts from there
TakeTransformResult ==
    /\ transform # NoTransform
    /\ transform' = NoTransform
    /\ UNCHANGED nonTransformVars

TransformNext ==
    \/ ScaleRecipe
    \/ ScaleBack
    \/ SuggestIngredientSubstitutions
    \/ SuggestRecipeSubstitutions
    \/ TakeTransformResult

TransformSpec == TransformInit /\ [][TransformNext]_vars

-----------------------------------------------------------------------------
(* The engine as one caller uses it: searches with any relaxation budget   *)
(* and pantry calls, one call at a time.                                   *)

MaxBudget == 2

\* the caller invokes search_with_fallback(preferences, max_relaxations)
CallSearchWithFallbackBudget ==
    /\ pc = "idle"
    /\ pantry_call = NoCall
    /\ \E p \in PrefMaps : preferences' = p
    /\ \E m \in 0..MaxBudget : max_relaxations' = m
    /\ fn' = "search_with_fallback"
    /\ pc' = "swf_enter"
    /\ relaxed' = <<>>
    /\ relaxed_preferences' = NoPrefs
    /\ ret' = NoRet
    /\ path' = "none"
    /\ raised' = [ws |-> "none", swf |-> "none"]
    /\ UNCHANGED <<collection, catalog>>
    /\ UNCHANGED nonSearchVars

EngineNext ==
    \/ CallSearchWithFallbackBudget
    \/ pantry_call = NoCall /\ CallSearchWithWeightedScoring
    \/ SwfLocalExact
    \/ SwfLocalRelax
    \/ SwfExact
    \/ SwfRelax
    \/ SwfMinimal
    \/ SwfLast
    \/ SwfExcept
    \/ WsRank
    \/ WsExcept
    \/ Finish
    \/ pc = "idle" /\ CallSearchByAvailableIngredients
    \/ pc = "idle" /\ CallFilterByAvailableIngredients
    \/ pc = "idle" /\ CallAgainWithOneMore

EngineSpec == Init /\ [][EngineNext]_vars

-----------------------------------------------------------------------------
(* The query builders: build_optimized_query (src/recipe_db.py) and        *)
(* build_query (src/actions.py), called on their own.  A pattern           *)
(* "a|b|c" is the sequence of its alternatives.                            *)

\* lines 23-30 of src/actions.py, in insertion order
INGREDIENT_CATEGORIES ==
    << [category |-> <<"pasta">>,
        items |-> << <<"pasta">>, <<"spaghetti">>, <<"penne">>,
                     <<"fettuccine">>, <<"linguine">>, <<"macaroni">>,
                     <<"lasagna">>, <<"ravioli">>, <<"tortellini">>,
                     <<"farfalle">>, <<"rigatoni">>, <<"orzo">> >>],
       [category |-> <<"rice">>,
        items |-> << <<"rice">>, <<"risotto">>, <<"biryani">>, <<"pilaf">>,
                     <<"fried", "rice">> >>],
       [category |-> <<"meat">>,
        items |-> << <<"chicken">>, <<"beef">>, <<"pork">>, <<"mutton">>,
                     <<"lamb">>, <<"turkey">> >>],
       [category |-> <<"seafood">>,
        items |-> << <<"fish">>, <<"shrimp">>, <<"prawn">>, <<"crab">>,
                     <<"lobster">>, <<"salmon">>, <<"tuna">> >>] >>

\* lines 32-38 of src/actions.py
DIET_EXCLUSIONS ==
    [d \in {<<"vegetarian">>, <<"vegan">>, <<"gluten-free">>} |->
        CASE d = <<"vegetarian">> ->
                INGREDIENT_CATEGORIES[3].items \o INGREDIENT_CATEGORIES[4].items
          [] d = <<"vegan">> ->
                INGREDIENT_CATEGORIES[3].items \o INGREDIENT_CATEGORIES[4].items
                \o << <<"milk">>, <<"cheese">>, <<"cream">>, <<"egg">>,
                      <<"butter">>, <<"yogurt">> >>
          [] d = <<"gluten-free">> ->
                << <<"wheat">>, <<"barley">>, <<"rye">>, <<"flour">>,
                   <<"pasta">>, <<"bread">>, <<"cereal">> >>]

\* {"$regex": "|".join(items), "$options": "i"}
RegexAny(items) == [op |-> "regex_any", pats |-> items]

\* {"$not": {"$regex": "|".join(items), "$options": "i"}}
NotRegexAny(items) == [op |-> "not_regex_any", pats |-> items]

\* lines 691-696: diet
BqDiet(entities) ==
    IF PrefHas(entities, "diet")
       /\ Lower(entities.val["diet"]) \in DOMAIN DIET_EXCLUSIONS
    THEN DictSet(EmptyDict, "ingredients",
                 NotRegexAny(DIET_EXCLUSIONS[Lower(entities.val["diet"])]))
    ELSE EmptyDict

\* line 702: ingredient in items or ingredient == category
InCategory(ingredient, i) ==
    \/ \E n \in DOMAIN INGREDIENT_CATEGORIES[i].items :
          INGREDIENT_CATEGORIES[i].items[n] = ingredient
    \/ ingredient = INGREDIENT_CATEGORIES[i].category

\* lines 701-709: index of the category at which the loop breaks, 0 when
\* it ends without a break
CategoryOf(ingredient) ==
    IF \E i \in DOMAIN INGREDIENT_CATEGORIES : InCategory(ingredient, i)
    THEN CHOOSE i \in DOMAIN INGREDIENT_CATEGORIES :
            /\ InCategory(ingredient, i)
            /\ \A j \in 1..(i - 1) : ~InCategory(ingredient, j)
    ELSE 0

\* lines 703-709: the condition of the category found
BqCategory(query, items) ==
    IF "ingredients" \in DOMAIN query
    THEN DictSet(EmptyDict, "$and",
                 << DictSet(EmptyDict, "ingredients", query["ingredients"]),
                    DictSet(EmptyDict, "ingredients", RegexAny(items)) >>)
    ELSE DictSet(query, "ingredients", RegexAny(items))

\* lines 698-709: ingredient; the loop ends without a condition when no
\* category is found
BqIngredient(query, entities) ==
    IF PrefHas(entities, "ingredient")
       /\ CategoryOf(Lower(entities.val["ingredient"])) # 0
    THEN BqCategory(query,
             INGREDIENT_CATEGORIES[
                 CategoryOf(Lower(entities.val["ingredient"]))].items)
    ELSE query

\* lines 711-713: cuisine
BqCuisine(query, entities) ==
    IF PrefHas(entities, "cuisine")
    THEN DictSet(query, "Cuisine", Regex(entities.val["cuisine"]))
    ELSE query

\* src/actions.py lines 687-715
build_query(entities) ==
    BqCuisine(BqIngredient(BqDiet(entities), entities), entities)

\* a condition of build_query on a document
AnyHolds(cond, doc, field) ==
    CASE cond.op = "regex_any" ->
            \E s \in FieldStrings(doc, field), i \in DOMAIN cond.pats :
                RegexSearchI(cond.pats[i], s)
      [] cond.op = "not_regex_any" ->
            ~\E s \in FieldStrings(doc, field), i \in DOMAIN cond.pats :
                RegexSearchI(cond.pats[i], s)
      [] OTHER -> CondHolds(cond, doc, field)

\* collection.find(query) for a query of build_query: does doc match
BqMatches(query, doc) ==
    \A k \in DOMAIN query :
        IF k = "$and"
        THEN \A i \in DOMAIN query[k] :
                AnyHolds(query[k][i]["ingredients"], doc, "ingredients")
        ELSE AnyHolds(query[k], doc, k)

\* time texts a user may give
TimeTexts ==
    {<<"quick">>, <<"fast">>, <<"easy">>, <<"simple">>, <<"20", "minutes">>,
     <<"under", "20", "minutes">>, <<"less", "than", "45", "minutes">>,
     <<"slow">>}

\* diet tokens a user may give; keto is in no table
DietTokens == {<<"vegetarian">>, <<"Vegan">>, <<"keto">>}

\* preference maps handed to build_optimized_query
QueryPrefMaps ==
    {[keys |-> SelectSeq(ActionsOrder, LAMBDA k : k \in S),
      val  |-> [k \in S |-> IF k = "diet" THEN d
                            ELSE IF k = "time" THEN t
                            ELSE CHOOSE x \in PrefValues(k) : TRUE]] :
        S \in SUBSET AllKeys, d \in DietTokens, t \in TimeTexts}

\* ingredient tokens: a category, a member, a two-word member, and one
\* that is in no category
IngredientTokens ==
    {<<"pasta">>, <<"penne">>, <<"fried", "rice">>, <<"paneer">>}

\* entity maps handed to build_query
EntityMaps ==
    {[keys |-> SelectSeq(ActionsOrder, LAMBDA k : k \in S),
      val  |-> [k \in S |-> IF k = "diet" THEN d
                            ELSE IF k = "ingredient" THEN g
                            ELSE <<"Indian">>]] :
        S \in SUBSET {"diet", "ingredient", "cuisine"}, d \in DietTokens,
        g \in IngredientTokens}

QueryInit ==
    /\ collection = "None"
    /\ catalog = <<>>
    /\ SearchIdle
    /\ pantry_call = NoCall
    /\ pantry_prev = NoCall
    /\ RecIdle
    /\ transform = NoTransform
    /\ built = NoBuilt
    /\ limiter = NoLimiter

\* build_optimized_query(preferences)
CallBuildOptimizedQuery ==
    /\ built = NoBuilt
    /\ \E p \in QueryPrefMaps :
          built' = [fn |-> "build_optimized_query", preferences |-> p,
                    raises |-> build_optimized_query(p).raises,
                    query |-> build_optimized_query(p).query]
    /\ UNCHANGED nonBuiltVars

\* build_query(entities)
CallBuildQuery ==
    /\ built = NoBuilt
    /\ \E e \in EntityMaps :
          built' = [fn |-> "build_query", preferences |-> e,
                    raises |-> FALSE, query |-> build_query(e)]
    /\ UNCHANGED nonBuiltVars

\* the caller takes the query
TakeQuery ==
    /\ built # NoBuilt
    /\ built' = NoBuilt
    /\ UNCHANGED nonBuiltVars

QueryNext ==
    \/ CallBuildOptimizedQuery
    \/ CallBuildQuery
    \/ TakeQuery

QuerySpec == QueryInit /\ [][QueryNext]_vars

-----------------------------------------------------------------------------
(* RateLimiter and rate_limit_middleware (src/api.py).  Time is counted in *)
(* clock ticks; datetime.now() reads limiter.now.  check_rate_limit has no *)
(* await in its body, so a call runs as one step of the event loop.        *)

Clients == {"10.0.0.1", "10.0.0.2"}

RequestPaths == {"/chat", "/health"}

\* times[-1]
LastOf(times) == times[Len(times)]

\* lines 50-51: clients whose latest request is within the last minute
CleanUp(request_history, current_time) ==
    [ip \in {c \in DOMAIN request_history :
                LastOf(request_history[c]) > current_time - MinuteTicks}
        |-> request_history[ip]]

\* variant of lines 59-70: a full history always makes room by dropping
\* its oldest entry
AdmitDroppingOldest(request_history, limit, client_ip, current_time) ==
    LET times == request_history[client_ip]
    IN  [request_history |->
             DictSet(request_history, client_ip,
                     Append(IF Len(times) >= limit THEN Tail(times) ELSE times,
                            current_time)),
         allowed |-> TRUE]

\* lines 59-70 for a client with history; `allowed` is the value returned
Admit(request_history, limit, client_ip, current_time) ==
    LET times == request_history[client_ip]
    IN  IF Len(times) >= limit
        THEN IF times[1] > current_time - MinuteTicks
             THEN [request_history |-> request_history, allowed |-> FALSE]
             ELSE [request_history |->
                       DictSet(request_history, client_ip,
                               Append(Tail(times), current_time)),
                   allowed |-> TRUE]
        ELSE [request_history |->
                  DictSet(request_history, client_ip,
                          Append(times, current_time)),
              allowed |-> TRUE]

\* lines 46-70
check_rate_limit(request_history, limit, client_ip, current_time) ==
    IF client_ip \notin DOMAIN CleanUp(request_history, current_time)
    THEN [request_history |->
              DictSet(CleanUp(request_history, current_time), client_ip,
                      <<current_time>>),
          allowed |-> TRUE]
    ELSE Admit(CleanUp(request_history, current_time), limit, client_ip,
               current_time)

\* the log of accepted requests with one more for the client
Logged(accepted, client_ip, current_time) ==
    DictSet(accepted, client_ip,
            IF client_ip \in DOMAIN accepted
            THEN Append(accepted[client_ip], current_time)
            ELSE <<current_time>>)

\* lines 97-111 with the answer of check_rate_limit
Respond(client_ip, answer) ==
    limiter' = [limiter EXCEPT
                  !.request_history = answer.request_history,
                  !.accepted = IF answer.allowed
                               THEN Logged(limiter.accepted, client_ip,
                                           limiter.now)
                               ELSE limiter.accepted,
                  !.response = IF answer.allowed THEN "passed" ELSE "429"]

\* rate_limit_middleware on a request of a client
RateLimitMiddleware ==
    /\ \E client_ip \in Clients, url_path \in RequestPaths :
          IF url_path = "/health"
          THEN limiter' = [limiter EXCEPT !.response = "health"]
          ELSE Respond(client_ip,
                       check_rate_limit(limiter.request_history,
                                        limiter.requests_per_minute,
                                        client_ip, limiter.now))
    /\ UNCHANGED nonLimiterVars

\* time passes between two requests
ClockTick ==
    /\ limiter.now < MaxClock
    /\ limiter' = [limiter EXCEPT !.now = limiter.now + 1]
    /\ UNCHANGED nonLimiterVars

\* the module level of src/api.py has run; nothing else is under way
LimiterInit ==
    /\ collection = "None"
    /\ catalog = <<>>
    /\ SearchIdle
    /\ pantry_call = NoCall
    /\ pantry_prev = NoCall
    /\ RecIdle
    /\ transform = NoTransform
    /\ built = NoBuilt
    /\ limiter = NoLimiter

LimiterNext ==
    \/ RateLimitMiddleware
    \/ ClockTick

LimiterSpec == LimiterInit /\ [][LimiterNext]_vars

-----------------------------------------------------------------------------
(* Vocabulary of the properties *)

\* a call has returned a value to its caller
Returned == pc = "done" /\ path # "propagated"

\* the catalog the call can see
VisibleCatalog == IF collection = "None" THEN SAMPLE_RECIPES ELSE catalog

\* the Relaxation Priority Order restricted to the keys of the map
PresentInOrder(p) == SelectSeq(relaxation_order, LAMBDA k : PrefHas(p, k))

IsPrefix(s, t) == Len(s) <= Len(t) /\ s = SubSeq(t, 1, Len(s))

InSeq(x, s) == \E i \in DOMAIN s : s[i] = x

KeySet(s) == {s[i] : i \in DOMAIN s}

AnyString(strings, value) ==
    \E i \in DOMAIN strings : Contains(Lower(value), Lower(strings[i]))

\* the condition a stated key puts on a recipe document
Satisfies(doc, p, k) ==
    LET value == p.val[k]
    IN  CASE k = "diet" -> AnyString(doc.diet.v, value)
          [] k = "cuisine" -> Contains(Lower(value), Lower(doc.Cuisine))
          [] k = "course" ->
                \/ Contains(Lower(value), Lower(doc.RecipeName))
                \/ Contains(Lower(value), Lower(doc.Description))
          [] k = "ingredient" -> AnyString(doc.ingredients, value)
          [] k = "exclude_ingredient" -> ~AnyString(doc.ingredients, value)
          [] k = "time" ->
                (\E w \in {"quick", "fast", "easy", "simple"} :
                    Contains(<<w>>, Lower(value)))
                    => doc.TotalTimeInMins < QuickMinutes
          [] OTHER -> TRUE

FilterKeys ==
    {"diet", "cuisine", "course", "ingredient", "exclude_ingredient", "time"}

HardKeys == {"diet", "exclude_ingredient"}

\* every store call of the current request answered
StoreAnswered == raised.ws # "store" /\ raised.swf # "store"

-----------------------------------------------------------------------------
(* C1 *)

\* C1: for every non-empty preference map and every store condition,
\* search_with_fallback returns a non-empty results list unless the catalog
\* itself is empty.
C1_NonEmptyResults ==
    (Returned /\ fn = "search_with_fallback" /\ preferences.keys # <<>>
        /\ VisibleCatalog # <<>>)
        => ret.results # <<>>

(* C2 *)

\* C2: on every return path of search_with_fallback the relaxed list, when
\* non-empty, is an initial segment, in the same order, of the priority
\* order restricted to the keys of the original preference map.
C2_RelaxedIsPriorityPrefix ==
    (Returned /\ fn = "search_with_fallback" /\ ret.relaxed # <<>>)
        => IsPrefix(ret.relaxed, PresentInOrder(preferences))

(* C3 *)

\* C3: every recipe search_with_fallback returns satisfies the condition of
\* every original preference key that is not in the returned relaxed list.
C3_ResultsSatisfyUnrelaxedKeys ==
    (Returned /\ fn = "search_with_fallback")
        => \A i \in DOMAIN ret.results :
             \A k \in FilterKeys :
                (PrefHas(preferences, k) /\ ~InSeq(k, ret.relaxed))
                    => Satisfies(RecipeOf(ret.results[i]), preferences, k)

(* C4 *)

\* the map after the first k keys of its priority order have been removed
AfterRemovals(p, k) ==
    LET gone == SubSeq(PresentInOrder(p), 1, k)
    IN  [keys |-> SelectSeq(p.keys, LAMBDA x : ~InSeq(x, gone)), val |-> p.val]

\* what the k-th query of the sequence yields
QueryResults(k) ==
    LET p == AfterRemovals(preferences, k)
        b == build_optimized_query(p)
    IN  IF collection = "None"
        THEN filter_recipes(SAMPLE_RECIPES, p).results
        ELSE IF b.raises THEN <<>> ELSE FindPage(catalog, b.query)

\* least k in 0..limit whose query yields results, -1 when none does
FirstNonEmpty(limit) ==
    IF \E k \in 0..limit : QueryResults(k) # <<>>
    THEN CHOOSE k \in 0..limit :
            /\ QueryResults(k) # <<>>
            /\ \A j \in 0..(k - 1) : QueryResults(j) = <<>>
    ELSE -1

\* the call returned and nothing raised on the way
ReturnedCleanly ==
    Returned /\ fn = "search_with_fallback" /\ raised.swf = "none"

\* removals the relaxation loop performs at most
RemovalBudget ==
    Min(Len(PresentInOrder(preferences)),
        IF max_relaxations < 1 THEN 1 ELSE max_relaxations)

LoopPaths == {"exact", "relax", "local_exact", "local_relax"}

C5_StoreFailureAbsorbed ==
    (pc = "done" /\ raised.swf = "store") =>
        LET f == filter_recipes(SAMPLE_RECIPES, preferences)
        IN  /\ path \in {"except_filter", "except_last"}
            /\ ~f.raises
            /\ ret.results = IF f.results # <<>> THEN f.results
                             ELSE Head_n(SAMPLE_RECIPES, SampleSlice)
            /\ ret.relaxed = IF f.results # <<>> THEN <<>>
                             ELSE preferences.keys

\* a store call raised in the middle of the relaxation loop
C5_Witness ==
    /\ pc = "done"
    /\ raised.swf = "store"
    /\ catalog # <<>>
    /\ Len(relaxed) >= 2
    /\ preferences.keys # <<>>

(* C6 *)

\* the candidates the hard constraints leave
HardPool ==
    IF collection = "None" THEN SAMPLE_RECIPES
    ELSE SelectSeq(catalog,
                   LAMBDA id : \A k \in HardKeys :
                       PrefHas(preferences, k)
                           => Satisfies(RecipeOf(id), preferences, k))

\* C6: search_with_weighted_scoring never drops a candidate for failing a
\* soft constraint: the number of results is the size of the hard-filtered
\* candidate pool, capped at the page size.  Stated for requests during
\* which every store call answers.
C6_ResultCountIsPoolSize ==
    (Returned /\ fn = "search_with_weighted_scoring" /\ StoreAnswered)
        => Len(ret.results) = Min(Len(HardPool), PageLimit)

(* C7 *)

\* C7: every recipe search_with_weighted_scoring returns satisfies the hard
\* constraints of the preference map, diet and exclude_ingredient.  Stated
\* for requests during which every store call answers.
C7_ResultsSatisfyHardConstraints ==
    (Returned /\ fn = "search_with_weighted_scoring" /\ StoreAnswered)
        => \A i \in DOMAIN ret.results :
             \A k \in HardKeys :
                PrefHas(preferences, k)
                    => Satisfies(RecipeOf(ret.results[i]), preferences, k)

(* C8 *)

CatalogPos(id) ==
    CHOOSE i \in DOMAIN VisibleCatalog : VisibleCatalog[i] = id

C9_ExampleScores ==
    (/\ Returned
     /\ fn = "search_with_weighted_scoring"
     /\ StoreAnswered
     /\ KeySet(preferences.keys) = {"diet", "cuisine"}
     /\ Lower(preferences.val["diet"]) = <<"vegetarian">>
     /\ Lower(preferences.val["cuisine"]) = <<"indian">>)
        => \A i \in DOMAIN ret.results :
              Satisfies(RecipeOf(ret.results[i]), preferences, "diet") =>
                 /\ ret.scored
                 /\ ret.detailed_results[i].score =
                       IF Satisfies(RecipeOf(ret.results[i]), preferences, "cuisine")
                       THEN default_weights["diet"] + default_weights["cuisine"]
                       ELSE default_weights["diet"]

(* C10 *)

\* C10: search_with_weighted_scoring never reports relaxed constraints: on
\* every return path, the one taken when scoring or the store raises
\* included, the returned relaxed list is empty.
C10_NeverReportsRelaxed ==
    (Returned /\ fn = "search_with_weighted_scoring") => ret.relaxed = <<>>

-----------------------------------------------------------------------------
(* Pantry matcher: properties *)

\* the recipes a call of the pantry matcher ranks from
ConsideredBy(call) ==
    IF call.fn = "filter_by_available_ingredients"
    THEN call.recipes
    ELSE VisibleCatalog

\* the match fraction of a recipe under a pantry
FractionOf(id, available_ingredients) ==
    EntryFor(id, Normalized(available_ingredients)).match_percentage

\* the missing count of a recipe under a pantry
MissingOf(id, available_ingredients) ==
    EntryFor(id, Normalized(available_ingredients)).missing_ingredients

\* the last call repeated the one before it with one more pantry item
GrownCall == pantry_prev # NoCall

\* no fraction is lower and no recipe is lost from the one call to the next
NothingLostByGrowing ==
    /\ \A i \in DOMAIN ConsideredBy(pantry_call) :
          FracGe(FractionOf(ConsideredBy(pantry_call)[i],
                            pantry_call.available_ingredients),
                 FractionOf(ConsideredBy(pantry_call)[i],
                            pantry_prev.available_ingredients))
    /\ \A i \in DOMAIN pantry_prev.ret :
          InSeq(pantry_prev.ret[i], pantry_call.ret)

C12_SortedByFractionThenMissing ==
    \A i, j \in DOMAIN pantry_call.ret :
        i < j =>
            /\ FracGe(FractionOf(pantry_call.ret[i],
                                 pantry_call.available_ingredients),
                      FractionOf(pantry_call.ret[j],
                                 pantry_call.available_ingredients))
            /\ FracGe(FractionOf(pantry_call.ret[j],
                                 pantry_call.available_ingredients),
                      FractionOf(pantry_call.ret[i],
                                 pantry_call.available_ingredients))
                  => MissingOf(pantry_call.ret[i],
                               pantry_call.available_ingredients)
                        <= MissingOf(pantry_call.ret[j],
                                     pantry_call.available_ingredients)

(* C13 *)
\* C13: no recipe returned by the pantry matcher has a match fraction
\* below the threshold, and none has an empty ingredient list, whatever
\* the pantry and the threshold (0 included).
C13_AboveThresholdAndNonEmpty ==
    \A i \in DOMAIN pantry_call.ret :
        /\ FracGe(FractionOf(pantry_call.ret[i],
                             pantry_call.available_ingredients),
                  pantry_call.min_match_percentage)
        /\ RecipeIngredients(RecipeOf(pantry_call.ret[i])) # <<>>

(* C14 *)
\* C14: every element of the pantry matcher's output carries the recipe's
\* match fraction and its count of missing ingredients.
C14_OutputCarriesFractionAndMissing ==
    \A i \in DOMAIN pantry_call.ret :
        /\ "match_percentage" \in DOMAIN RecipeOf(pantry_call.ret[i])
        /\ "missing_ingredients" \in DOMAIN RecipeOf(pantry_call.ret[i])

-----------------------------------------------------------------------------
(* RecipeRecommender: properties *)

\* similarity[a][b]
SimilarityTo(a, b) == recipe_similarity.val[a][b]

\* the rating predicted for the user of the last read
PredictedFor(recipe_id) ==
    PredictedRating(recipe_similarity, RatingsOf(rec_ret.arg), recipe_id)

\* the prediction denominator of a recipe for the user of the last read
DenominatorFor(recipe_id) ==
    Denominator(recipe_similarity, recipe_id,
                Contributing(recipe_similarity, RatingsOf(rec_ret.arg),
                             recipe_id))

(* C15 *)
\* C15: after any sequence of update_recipe_features calls the similarity
\* matrix is symmetric and every self-similarity is exactly 1.
C15_SymmetricWithUnitDiagonal ==
    \A a, b \in DOMAIN recipe_similarity.val :
        /\ SimilarityTo(a, b) = SimilarityTo(b, a)
        /\ SimilarityTo(a, a) = <<1, 1>>

\* a matrix of four recipes with the off-diagonal entries 0, 1/2 and 1
C15_Witness ==
    /\ Len(recipe_similarity.keys) = 4
    /\ \A v \in {<<0, 1>>, <<1, 2>>, <<1, 1>>} :
          \E a, b \in DOMAIN recipe_similarity.val :
              a # b /\ SimilarityTo(a, b) = v

(* C16 *)
\* C16: get_similar_recipes(recipe_id, n) returns at most n recipe ids,
\* none of them recipe_id itself, in non-increasing similarity to it.
C16_SimilarExcludesSelfSorted ==
    rec_ret.fn = "get_similar_recipes" =>
        /\ Len(rec_ret.result) <= rec_ret.n
        /\ ~InSeq(rec_ret.arg, rec_ret.result)
        /\ \A i, j \in DOMAIN rec_ret.result :
              i < j => FracGe(SimilarityTo(rec_ret.arg, rec_ret.result[i]),
                              SimilarityTo(rec_ret.arg, rec_ret.result[j]))

(* C17 *)
\* C17: after any sequence of update_user_preferences and
\* update_recipe_features calls, get_personalized_recommendations(user, n)
\* returns at most n recipe ids, in non-increasing predicted rating, none
\* of them rated by the user and none with a zero prediction denominator.
C17_RecommendationsSortedUnratedDefined ==
    rec_ret.fn = "get_personalized_recommendations" =>
        /\ Len(rec_ret.result) <= rec_ret.n
        /\ \A i \in DOMAIN rec_ret.result :
              /\ rec_ret.result[i] \notin DOMAIN RatingsOf(rec_ret.arg)
              /\ DenominatorFor(rec_ret.result[i])[1] > 0
        /\ \A i, j \in DOMAIN rec_ret.result :
              i < j => FracGe(PredictedFor(rec_ret.result[i]),
                              PredictedFor(rec_ret.result[j]))

\* two recommendations with different predicted ratings, for a user with
\* two ratings, while a recipe with a zero denominator or a third
\* prediction is left out
C17_Witness ==
    /\ rec_ret.fn = "get_personalized_recommendations"
    /\ rec_pc = "idle"
    /\ Len(rec_ret.result) = 2
    /\ Cardinality(DOMAIN RatingsOf(rec_ret.arg)) = 2
    /\ FracGt(PredictedFor(rec_ret.result[1]), PredictedFor(rec_ret.result[2]))

(* C18 *)
\* C18: a reader that runs at any point of a concurrent
\* update_recipe_features finds the similarity matrix to be the one built
\* from the feature table it finds: both as before the update or both as
\* after it.
C18_ReaderSeesMatchingTables ==
    rec_ret # NoRead =>
        recipe_similarity =
            ComputeSimilarity(recipe_features, recipe_similarity)

(* C19 *)

\* the quantity an ingredient line states, <<0, 0>> when it states none
QuantityOf(ingredient) ==
    IF QuantityLen(ingredient) = 0 THEN <<0, 0>>
    ELSE ParseQuantity(QuantityStr(ingredient))

\* what the two roundings can add up to: each rounding moves a quantity by
\* less than 3/50 (the snap tolerance and the distance of 1/3 from 0.33),
\* and the first one is multiplied by 1/f
RoundingTolerance(f) ==
    FracMul(<<3, 50>>, FracAdd(<<1, 1>>, FracDiv(<<1, 1>>, f)))

\* C19: scaling a recipe by a factor f > 0 and then by 1/f restores every
\* parseable ingredient quantity within rounding tolerance, also when the
\* intermediate quantity is smaller than 1/8.
C19_RoundTripRestoresQuantities ==
    (transform.fn = "scale_recipe" /\ transform.stage = "restored")
        => \A k \in DOMAIN transform.ingredients :
              QuantityOf(transform.ingredients[k])[2] # 0
                  => /\ k \in DOMAIN transform.back
                     /\ QuantityOf(transform.back[k])[2] # 0
                     /\ FracGe(RoundingTolerance(transform.factor),
                               FracAbsDiff(QuantityOf(transform.back[k]),
                                   QuantityOf(transform.ingredients[k])))

(* C20 *)

\* the suggestions refer to pairwise different ingredients of the list,
\* in the order of the list
OncePerIngredientInOrder(suggestions, ingredients) ==
    \E at \in [DOMAIN suggestions -> DOMAIN ingredients] :
        /\ \A i \in DOMAIN suggestions :
              suggestions[i].original = ingredients[at[i]]
        /\ \A i, j \in DOMAIN suggestions : i < j => at[i] < at[j]

\* C20: scale_recipe returns an ingredient list of the same length as its
\* input whose k-th entry is the scaled form of the k-th input ingredient,
\* and substitution suggestions are emitted at most once per ingredient and
\* in the order of the ingredients they refer to.
C20_OrderPreserved ==
    /\ transform.fn = "scale_recipe" =>
          /\ Len(transform.out) = Len(transform.ingredients)
          /\ transform.factor[1] > 0 =>
                \A k \in DOMAIN transform.ingredients :
                    transform.out[k] =
                        scale_ingredient(transform.ingredients[k],
                                         transform.factor)
    /\ transform.stage = "suggested" =>
          OncePerIngredientInOrder(transform.out, transform.ingredients)

(* C21 *)

\* C21: search_with_fallback, search_with_weighted_scoring and the pantry
\* matcher leave the catalog's recipe records and the caller's preference
\* map unchanged: no step changes the catalog, no step of a call changes
\* the map the caller passed, and a ranked result lists stored recipes
\* inside new wrapper records that carry the score.
C21_SearchLeavesInputsUnchanged ==
    [][ /\ catalog' = catalog
        /\ (pc # "idle" /\ pc' # "idle") => preferences' = preferences
        /\ (pc' = "done" /\ ret'.scored) =>
              \A i \in DOMAIN ret'.detailed_results :
                  /\ ret'.detailed_results[i].recipe = ret'.results[i]
                  /\ InSeq(ret'.results[i], catalog)
                  /\ "score" \notin DOMAIN RecipeOf(ret'.results[i])
      ]_vars

\* a search has relaxed keys on its copy and returned: the map passed
\* still has every key
C21_Witness ==
    /\ Returned
    /\ path = "relax"
    /\ Len(relaxed) = 2
    /\ Len(relaxed_preferences.keys) + 2 = Len(preferences.keys)

(* C22 *)

\* the upper bound a time text asks for: 30 for quick, fast, easy and
\* simple, N for "N minutes", 0 when the text asks for none
TimeBound(value) ==
    IF \E w \in {"quick", "fast", "easy", "simple"} :
          Contains(<<w>>, Lower(value))
    THEN QuickMinutes
    ELSE IF \E i \in 1..(Len(value) - 1) :
               value[i] \in DOMAIN NumberOf /\ value[i + 1] = "minutes"
         THEN NumberOf[value[CHOOSE i \in 1..(Len(value) - 1) :
                  value[i] \in DOMAIN NumberOf /\ value[i + 1] = "minutes"]]
         ELSE 0

\* the condition of a present key, the time key with its bound
Meets(doc, p, k) ==
    IF k = "time"
    THEN TimeBound(p.val[k]) # 0 => doc.TotalTimeInMins < TimeBound(p.val[k])
    ELSE Satisfies(doc, p, k)

\* the documents the built predicates are tried on
SomeDocs == {RecipeOf(t) : t \in Templates}

\* C22: for every preference map over the known key set,
\* build_optimized_query returns without raising, and a recipe satisfies
\* the predicate exactly when it satisfies the condition of every present
\* key: no key's condition is lost or overwritten by another's.
C22_PredicateIsConjunctionOfPresentKeys ==
    built.fn = "build_optimized_query" =>
        /\ ~built.raises
        /\ \A doc \in SomeDocs :
              Matches(built.query, doc) <=>
                  \A k \in FilterKeys :
                      PrefHas(built.preferences, k) =>
                          Meets(doc, built.preferences, k)

(* C27 *)

\* C27: in build_optimized_query a diet token that is not in the
\* diet-to-excluded-ingredients table produces no diet condition: the map
\* matches the same recipes as the map without the diet key.
C27_UnknownDietFailsOpen ==
    (/\ built.fn = "build_optimized_query"
     /\ PrefHas(built.preferences, "diet")
     /\ Lower(built.preferences.val["diet"]) \notin DOMAIN DIET_EXCLUSIONS)
        => /\ built.raises =
                 build_optimized_query(PrefDel(built.preferences, "diet")).raises
           /\ \A doc \in SomeDocs :
                 Matches(built.query, doc) <=>
                     Matches(build_optimized_query(
                                 PrefDel(built.preferences, "diet")).query,
                             doc)

(* C28 *)

\* the names an ingredient token stands for: those of its category, or
\* the token itself
NamesOf(ingredient) ==
    IF CategoryOf(ingredient) # 0
    THEN {INGREDIENT_CATEGORIES[CategoryOf(ingredient)].items[i] :
              i \in DOMAIN INGREDIENT_CATEGORIES[CategoryOf(ingredient)].items}
    ELSE {ingredient}

\* C28: build_query turns every ingredient token into an ingredient
\* condition: a recipe matching the predicate has an ingredient that
\* contains a name of the token's category, or the token itself when it is
\* in no category.
C28_IngredientTokenAlwaysConditions ==
    (built.fn = "build_query" /\ PrefHas(built.preferences, "ingredient"))
        => \A doc \in SomeDocs :
              BqMatches(built.query, doc) =>
                  \E name \in NamesOf(Lower(built.preferences.val["ingredient"])) :
                      AnyString(doc.ingredients, name)

(* C29 *)

\* C29: build_optimized_query maps each of the time tokens quick, fast,
\* easy and simple to 'total time < 30', a time text 'N minutes' to
\* 'total time < N', and adds no time condition, without failing, for
\* any other time text.
C29_TimeTextToBound ==
    (built.fn = "build_optimized_query"
        /\ built.preferences.keys = <<"time">>)
        => /\ ~built.raises
           /\ built.query =
                 IF TimeBound(built.preferences.val["time"]) # 0
                 THEN DictSet(EmptyDict, "TotalTimeInMins",
                              Lt(TimeBound(built.preferences.val["time"])))
                 ELSE EmptyDict


\* positions of a search_with_fallback call at which `relaxed` holds exactly
\* the keys the relaxation loop has removed so far
LoopPositions == {"swf_relax", "swf_local_relax", "swf_minimal", "swf_last"}

\* C23: during one search_with_fallback call the relaxation loop removes at
\* most max_relaxations keys (and issues at most that many re-queries)
\* before giving up, for every max_relaxations >= 0 and every preference
\* map, with the store and with the seed set.
C23_AtMostBudgetRemovals ==
    (fn = "search_with_fallback" /\ pc \in LoopPositions) =>
        Len(relaxed) <= max_relaxations


\* the preference map {"diet": preferences["diet"]}
DietOnly == [keys |-> <<"diet">>, val |-> preferences.val]

\* what a diet-only query yields on the source the call reads: the store,
\* or the seed set when collection is None
DietOnlyResults ==
    IF collection = "None"
    THEN filter_recipes(SAMPLE_RECIPES, DietOnly).results
    ELSE FindPage(catalog, build_optimized_query(DietOnly).query)

\* the unfiltered sample of that source
UnfilteredSample ==
    IF collection = "None"
    THEN Head_n(SAMPLE_RECIPES, SampleSlice)
    ELSE FindPage(catalog, EmptyDict)

\* the call returned after its relaxation loop ended without results
LoopEndedEmpty == ReturnedCleanly /\ path \notin LoopPaths

\* the return sites behind the diet-only query of lines 239-242: line 247
\* when it matched, line 251 when it did not
DietOnlyQueryIssued == path \in {"minimal", "last"}

\* what the call returns after the diet-only query
DietOnlyOutcome ==
    IF DietOnlyResults # <<>>
    THEN /\ ret.results = DietOnlyResults
         /\ KeySet(ret.relaxed) = KeySet(preferences.keys) \ {"diet"}
    ELSE /\ ret.results = UnfilteredSample
         /\ KeySet(ret.relaxed) = KeySet(preferences.keys)

\* C24: when diet is in the original map and the relaxation loop ends
\* without results, the call issues one diet-only query: if it matches,
\* its results are returned and relaxed holds every original key except
\* diet; if it does not, an unfiltered sample is returned and relaxed holds
\* every original key.  This holds with the store and with the seed set.
C24_DietOnlyThenSample ==
    (LoopEndedEmpty /\ PrefHas(preferences, "diet")) =>
        DietOnlyQueryIssued /\ DietOnlyOutcome

\* with the store the diet-only query is issued and decides the outcome
StoreBranchDietOnlyThenSample ==
    (LoopEndedEmpty /\ PrefHas(preferences, "diet") /\ collection # "None") =>
        DietOnlyQueryIssued /\ DietOnlyOutcome

\* with the seed set the outcome is that of an unmatched diet-only query
SeedBranchOutcome ==
    (LoopEndedEmpty /\ PrefHas(preferences, "diet") /\ collection = "None") =>
        DietOnlyOutcome


\* no update_recipe_features call is under way and one has completed
UpdateCompleted == rec_pc = "idle" /\ recipe_features.keys # <<>>

\* C25: after every completed update_recipe_features call, in any sequence
\* of calls, the similarity matrix has exactly the recipe ids of the
\* feature table as its rows and columns, and the entry of every two
\* recipes is the cosine similarity of their current feature vectors, so
\* that no entry derived from a replaced feature vector is left.
C25_MatrixMatchesCurrentFeatures ==
    UpdateCompleted =>
        /\ recipe_similarity.keys = recipe_features.keys
        /\ DOMAIN recipe_similarity.val = DOMAIN recipe_features.val
        /\ \A a \in DOMAIN recipe_features.val :
              /\ DOMAIN recipe_similarity.val[a] = DOMAIN recipe_features.val
              /\ \A b \in DOMAIN recipe_features.val \ {a} :
                    SimilarityTo(a, b) =
                        Cosine(recipe_features.val[a], recipe_features.val[b])

\* three recipes after completed updates, two of them with a similarity
\* strictly between 0 and 1
C25_Witness ==
    /\ UpdateCompleted
    /\ Len(recipe_features.keys) = 3
    /\ \E a, b \in DOMAIN recipe_features.val :
          /\ a # b
          /\ SimilarityTo(a, b)[1] > 0
          /\ SimilarityTo(a, b)[1] < SimilarityTo(a, b)[2]

\* the feature vector of the recipe is empty or all zeros
ZeroVector(a) ==
    \A k \in DOMAIN recipe_features.val[a] : recipe_features.val[a][k] = 0

\* C26: the similarity between a recipe whose feature vector is all zeros
\* (or empty) and any other recipe is 0.0, and no entry of the matrix is a
\* quotient with a zero norm as its divisor.
C26_ZeroVectorSimilarityIsZero ==
    UpdateCompleted =>
        \A a \in DOMAIN recipe_features.val :
            \A b \in DOMAIN recipe_features.val \ {a} :
                /\ SimilarityTo(a, b)[2] # 0
                /\ (ZeroVector(a) \/ ZeroVector(b)) =>
                       SimilarityTo(a, b) = <<0, 1>>

\* a recipe without features next to one with features, and next to
\* another one without
C26_Witness ==
    /\ UpdateCompleted
    /\ \E a, b, c \in DOMAIN recipe_features.val :
          /\ a # b /\ a # c /\ b # c
          /\ ZeroVector(a) /\ ZeroVector(b) /\ ~ZeroVector(c)


\* requests of the client accepted at a time t with from <= t < from + one
\* minute
AcceptedWithin(client_ip, from) ==
    Cardinality({i \in DOMAIN limiter.accepted[client_ip] :
                    /\ from <= limiter.accepted[client_ip][i]
                    /\ limiter.accepted[client_ip][i] < from + MinuteTicks})

\* C30: for every sequence of check_rate_limit calls with non-decreasing
\* timestamps, no more than requests_per_minute requests of the same client
\* are accepted within any one-minute window, and the stored history of a
\* client never holds more than requests_per_minute timestamps.
C30_AtMostLimitPerMinute ==
    /\ \A client_ip \in DOMAIN limiter.accepted :
          \A from \in 0..MaxClock :
              AcceptedWithin(client_ip, from) <= limiter.requests_per_minute
    /\ \A client_ip \in DOMAIN limiter.request_history :
          Len(limiter.request_history[client_ip])
              <= limiter.requests_per_minute

\* a client with a full history is turned away, after an earlier full
\* minute of its own has gone by, while the other client has history too
C30_Witness ==
    /\ limiter.response = "429"
    /\ DOMAIN limiter.request_history = Clients
    /\ \E client_ip \in Clients :
          /\ Len(limiter.request_history[client_ip])
                = limiter.requests_per_minute
          /\ Len(limiter.accepted[client_ip])
                > limiter.requests_per_minute

====
